---- MODULE Spec2Model ----
(***************************************************************************)
(* A model of rigra (nazahex/riglet): the dotted-path addressing over JSON *)
(* values, the structured merge of the sync command, the check engine and  *)
(* the order/linebreak formatter.                                          *)
(*                                                                         *)
(* Strings that the program takes apart (paths) are sequences of one-      *)
(* character strings, so that trimming, prefix stripping and splitting are *)
(* computed as the code computes them.  Object keys are such sequences     *)
(* too.  A JSON object is an ordered sequence of entries (serde_json's     *)
(* insertion-ordered map, the spec's "ordered association"): equality of   *)
(* values ignores the order of an object's keys, equality of texts does    *)
(* not.                                                                    *)
(***************************************************************************)
EXTENDS Integers, Sequences, FiniteSets, TLC

VARIABLES mg, sy, ck, fm, pa, rs, cv

vars == <<mg, sy, ck, fm, pa, rs, cv>>

(***************************************************************************)
(* Option<T>: the empty sequence is None, a one-element sequence is Some.  *)
(***************************************************************************)
None == <<>>

Some(v) == <<v>>

IsSome(o) == o # <<>>

Unwrap(o) == o[1]

Range(s) == {s[i] : i \in 1..Len(s)}

(***************************************************************************)
(* serde_json::Value.  Every kind is a record with a field of its own, so  *)
(* that two values of different kinds are different records.               *)
(***************************************************************************)
JNull == [null |-> TRUE]

JNum(n) == [num |-> n]

\* A number held as an f64, as the parser holds every number written with a
\* fraction or an exponent: n + tenths/10.  JNum is a number held as an
\* integer; the two are never equal, as serde_json's Number has it.
JFloat(n, tenths) == [num |-> n, tenths |-> tenths]

JStr(s) == [str |-> s]

JBool(b) == [bool |-> b]

JArr(s) == [arr |-> s]

JObj(entries) == [obj |-> entries]

IsObj(j) == "obj" \in DOMAIN j

IsArr(j) == "arr" \in DOMAIN j

IsNull(j) == "null" \in DOMAIN j

Entry(k, v) == [k |-> k, v |-> v]

Keys(j) == [i \in 1..Len(j.obj) |-> j.obj[i].k]

KeyIndex(j, k) ==
    IF \E i \in 1..Len(j.obj) : j.obj[i].k = k
    THEN CHOOSE i \in 1..Len(j.obj) : j.obj[i].k = k
    ELSE 0

MapContainsKey(j, k) == KeyIndex(j, k) # 0

MapGet(j, k) == j.obj[KeyIndex(j, k)].v

\* Map::insert: an existing key keeps its position, a new key is appended.
MapInsert(j, k, v) ==
    IF MapContainsKey(j, k)
    THEN JObj([j.obj EXCEPT ![KeyIndex(j, k)] = Entry(k, v)])
    ELSE JObj(Append(j.obj, Entry(k, v)))

\* Map::remove of the insertion-ordered map is swap_remove: the last entry
\* takes the removed entry's place.
MapRemove(j, k) ==
    LET i == KeyIndex(j, k)
        n == Len(j.obj)
    IN  IF i = 0 THEN j
        ELSE IF i = n THEN JObj(SubSeq(j.obj, 1, n - 1))
        ELSE JObj([x \in 1..(n - 1) |-> IF x = i THEN j.obj[n] ELSE j.obj[x]])

\* Value's PartialEq: objects are equal when they hold the same keys with
\* equal values, in any order; arrays element by element.
RECURSIVE JsonEq(_, _)
JsonEq(a, b) ==
    IF IsObj(a) /\ IsObj(b)
    THEN /\ Len(a.obj) = Len(b.obj)
         /\ \A i \in 1..Len(a.obj) :
              /\ MapContainsKey(b, a.obj[i].k)
              /\ JsonEq(a.obj[i].v, MapGet(b, a.obj[i].k))
    ELSE IF IsArr(a) /\ IsArr(b)
    THEN /\ Len(a.arr) = Len(b.arr)
         /\ \A i \in 1..Len(a.arr) : JsonEq(a.arr[i], b.arr[i])
    ELSE a = b

(***************************************************************************)
(* str helpers, on sequences of characters.                                *)
(***************************************************************************)
RECURSIVE TrimStartMatches(_, _)
TrimStartMatches(s, c) ==
    IF s # <<>> /\ Head(s) = c THEN TrimStartMatches(Tail(s), c) ELSE s

RECURSIVE TrimEnd(_)
TrimEnd(s) ==
    IF s # <<>> /\ s[Len(s)] = " " THEN TrimEnd(SubSeq(s, 1, Len(s) - 1)) ELSE s

Trim(s) == TrimEnd(TrimStartMatches(s, " "))

StripPrefix(s, c) == IF s # <<>> /\ Head(s) = c THEN Some(Tail(s)) ELSE None

\* str::split: the pieces between the separators, empty pieces included.
RECURSIVE Split(_, _)
Split(s, c) ==
    IF \E i \in 1..Len(s) : s[i] = c
    THEN LET i == CHOOSE x \in 1..Len(s) :
                    s[x] = c /\ \A y \in 1..(x - 1) : s[y] # c
         IN  <<SubSeq(s, 1, i - 1)>> \o Split(SubSeq(s, i + 1, Len(s)), c)
    ELSE <<s>>

NonEmptySegs(segs) == SelectSeq(segs, LAMBDA x : x # <<>>)

(***************************************************************************)
(* utils::get_json_path                                                    *)
(***************************************************************************)
RECURSIVE WalkSegs(_, _)
WalkSegs(cur, segs) ==
    IF segs = <<>> THEN Some(cur)
    ELSE IF Head(segs) = <<>> THEN WalkSegs(cur, Tail(segs))
    ELSE IF IsObj(cur) /\ MapContainsKey(cur, Head(segs))
    THEN WalkSegs(MapGet(cur, Head(segs)), Tail(segs))
    ELSE None

\* The leading "$" taken for a key.
get_json_path_KeepsDollar(json, path) ==
    IF Trim(path) = <<>> THEN Some(json) ELSE WalkSegs(json, Split(Trim(path), "."))

get_json_path(json, path) ==
    LET trimmed == Trim(path)
        stripped == StripPrefix(trimmed, "$")
        p == IF IsSome(stripped)
             THEN TrimStartMatches(Unwrap(stripped), ".")
             ELSE trimmed
    IN  IF p = <<>> THEN Some(json) ELSE WalkSegs(json, Split(p, "."))

(***************************************************************************)
(* The set_path closure of apply_json_merge.  val is an Option: None       *)
(* removes the last segment's key.                                         *)
(***************************************************************************)
EmptyObj == JObj(<<>>)

RECURSIVE SetSegs(_, _, _)
SetSegs(cur, segs, val) ==
    IF ~IsObj(cur) THEN cur
    ELSE IF Len(segs) = 1
    THEN IF IsSome(val)
         THEN MapInsert(cur, segs[1], Unwrap(val))
         ELSE MapRemove(cur, segs[1])
    ELSE LET s == Head(segs)
             withS == IF MapContainsKey(cur, s) THEN cur
                      ELSE MapInsert(cur, s, EmptyObj)
         IN  MapInsert(withS, s, SetSegs(MapGet(withS, s), Tail(segs), val))

set_path(root, path, val) ==
    LET p == TrimStartMatches(TrimStartMatches(Trim(path), "$"), ".")
        segs == NonEmptySegs(Split(p, "."))
    IN  IF segs = <<>>
        THEN (IF IsSome(val) THEN Unwrap(val) ELSE JNull)
        ELSE SetSegs(root, segs, val)

(***************************************************************************)
(* The merge of apply_json_merge: the precedence steps on a clone of the   *)
(* template.  mcfg.array is an Option of a sequence of <<path, strategy>>. *)
(***************************************************************************)
RECURSIVE ApplyOverridePaths(_, _, _)
ApplyOverridePaths(result, src_json, paths) ==
    IF paths = <<>> THEN result
    ELSE LET p == Head(paths)
             v == get_json_path(src_json, p)
         IN  ApplyOverridePaths(IF IsSome(v) THEN set_path(result, p, v) ELSE result,
                                src_json, Tail(paths))

\* keep_paths and nosync_paths: the destination's value, or removal.
\* The keep step left out: the result keeps the template's values.
ApplyKeepPaths_Skipped(result, dst_json, paths) == result

RECURSIVE ApplyKeepPaths(_, _, _)
ApplyKeepPaths(result, dst_json, paths) ==
    IF paths = <<>> THEN result
    ELSE LET p == Head(paths)
         IN  ApplyKeepPaths(set_path(result, p, get_json_path(dst_json, p)),
                            dst_json, Tail(paths))

RECURSIVE ExtendUnique(_, _)
ExtendUnique(merged, sa) ==
    IF sa = <<>> THEN merged
    ELSE ExtendUnique(IF \E i \in 1..Len(merged) : JsonEq(merged[i], Head(sa))
                      THEN merged
                      ELSE Append(merged, Head(sa)),
                      Tail(sa))

\* Template elements first, then the destination's new ones.
UnionArrays_TemplateFirst(sa, da) ==
    ExtendUnique(sa, IF IsSome(da) /\ IsArr(Unwrap(da)) THEN Unwrap(da).arr ELSE <<>>)

UnionArrays(sa, da) ==
    ExtendUnique(IF IsSome(da) /\ IsArr(Unwrap(da)) THEN Unwrap(da).arr ELSE <<>>, sa)

ApplyArrayStrategy(result, src_json, dst_json, path, strat) ==
    LET sv == get_json_path(src_json, path)
    IN  IF strat = "union"
        THEN IF IsSome(sv) /\ IsArr(Unwrap(sv))
             THEN set_path(result, path,
                           Some(JArr(UnionArrays(Unwrap(sv).arr,
                                                 get_json_path(dst_json, path)))))
             ELSE result
        ELSE IF IsSome(sv) THEN set_path(result, path, sv) ELSE result

RECURSIVE ApplyArrayStrategies(_, _, _, _)
ApplyArrayStrategies(result, src_json, dst_json, arr) ==
    IF arr = <<>> THEN result
    ELSE ApplyArrayStrategies(
             ApplyArrayStrategy(result, src_json, dst_json, Head(arr)[1], Head(arr)[2]),
             src_json, dst_json, Tail(arr))

\* The array strategies applied before the keep and nosync paths.
MergeJson_ArraysFirst(src_json, dst_json, mcfg) ==
    LET r1 == ApplyOverridePaths(src_json, src_json, mcfg.override_paths)
        r2 == IF IsSome(mcfg.array)
              THEN ApplyArrayStrategies(r1, src_json, dst_json, Unwrap(mcfg.array))
              ELSE r1
        r3 == ApplyKeepPaths(r2, dst_json, mcfg.keep_paths)
    IN  ApplyKeepPaths(r3, dst_json, mcfg.nosync_paths)

\* The steps applied to a clone of the destination.
MergeJson_FromDestination(src_json, dst_json, mcfg) ==
    LET r0 == IF IsObj(dst_json) THEN dst_json ELSE src_json
        r1 == ApplyOverridePaths(r0, src_json, mcfg.override_paths)
        r2 == ApplyKeepPaths(r1, dst_json, mcfg.keep_paths)
        r3 == ApplyKeepPaths(r2, dst_json, mcfg.nosync_paths)
    IN  IF IsSome(mcfg.array)
        THEN ApplyArrayStrategies(r3, src_json, dst_json, Unwrap(mcfg.array))
        ELSE r3

MergeJson(src_json, dst_json, mcfg) ==
    LET r0 == src_json
        r1 == ApplyOverridePaths(r0, src_json, mcfg.override_paths)
        r2 == ApplyKeepPaths(r1, dst_json, mcfg.keep_paths)
        r3 == ApplyKeepPaths(r2, dst_json, mcfg.nosync_paths)
    IN  IF IsSome(mcfg.array)
        THEN ApplyArrayStrategies(r3, src_json, dst_json, Unwrap(mcfg.array))
        ELSE r3

(***************************************************************************)
(* Bounded inputs of the merge: documents over the keys x and y (x holding *)
(* a number, an array, or an object with the child b), the merge paths and *)
(* the client merge configurations.                                        *)
(***************************************************************************)
MaxArrLen == 2

BSeq(S, n) == UNION {[1..k -> S] : k \in 0..n}

Doc2(k1, v1, k2, v2) == JObj(<<Entry(k1, v1), Entry(k2, v2)>>)

Doc1(k1, v1) == JObj(<<Entry(k1, v1)>>)

KX == <<"x">>

KY == <<"y">>

KB == <<"b">>

PX == <<"x">>

PY == <<"y">>

PXB == <<"x", ".", "b">>

PDX == <<"$", ".", "x">>

Nums == {JNum(1), JNum(2)}

ArrVals == {JArr(s) : s \in BSeq(Nums, MaxArrLen)}

ObjVals ==
    {EmptyObj} \cup
    {JObj(<<Entry(KB, v)>>) : v \in {JNum(1), JArr(<<JNum(1)>>), JArr(<<JNum(2)>>)}}

XVals == Nums \cup ArrVals \cup ObjVals

YVal == JNum(2)

\* x alone, x before y, and no x at all.
Docs ==
    {EmptyObj, JObj(<<Entry(KY, YVal)>>)} \cup
    UNION {{JObj(<<Entry(KX, v)>>),
            JObj(<<Entry(KX, v), Entry(KY, YVal)>>)} : v \in XVals}

KeepLists == {<<>>, <<PX>>, <<PXB>>, <<PY>>, <<PX, PXB>>, <<PXB, PX>>}

NosyncLists == {<<>>, <<PDX>>, <<PXB>>}

ArrayCfgs ==
    {None, Some(<< <<PX, "union">> >>), Some(<< <<PX, "replace">> >>),
     Some(<< <<PXB, "union">> >>)}

\* Every combination of keep, nosync and array strategies without override
\* paths, and the override paths with a few of them.
MergeCfgs ==
    [override_paths : {<<>>}, keep_paths : KeepLists,
     nosync_paths : NosyncLists, array : ArrayCfgs]
    \cup
    [override_paths : {<<PX>>, <<PXB, PY>>}, keep_paths : {<<>>, <<PX>>},
     nosync_paths : {<<>>},
     array : {None, Some(<< <<PX, "replace">> >>), Some(<< <<PXB, "other">> >>)}]

(***************************************************************************)
(* The merge as a function of its inputs: one action applies it.           *)
(***************************************************************************)
MgIdle == [pc |-> "idle"]

SyIdle == [pc |-> "idle"]

CkIdle == [pc |-> "idle"]

FmIdle == [pc |-> "idle"]

PaIdle == [pc |-> "idle"]

RsIdle == [pc |-> "idle"]

CvIdle == [pc |-> "idle"]

InitMerge ==
    /\ mg \in [pc : {"start"}, src_json : Docs, dst_json : Docs \cup {JNull},
               mcfg : MergeCfgs, result : {None}]
    /\ sy = SyIdle
    /\ ck = CkIdle
    /\ fm = FmIdle
    /\ pa = PaIdle /\ rs = RsIdle /\ cv = CvIdle

Merge ==
    /\ mg.pc = "start"
    /\ mg' = [mg EXCEPT !.pc = "done",
                        !.result = Some(MergeJson(mg.src_json, mg.dst_json, mg.mcfg))]
    /\ UNCHANGED <<sy, ck, fm, pa, rs, cv>>

NextMerge == Merge

SpecMerge == InitMerge /\ [][NextMerge]_vars

(***************************************************************************)
(* Vocabulary of the merge claims.                                         *)
(***************************************************************************)
PathSegs(path) ==
    NonEmptySegs(Split(TrimStartMatches(TrimStartMatches(Trim(path), "$"), "."), "."))

IsPrefixSeq(a, b) == Len(a) <= Len(b) /\ SubSeq(b, 1, Len(a)) = a

Overlap(p, q) ==
    IsPrefixSeq(PathSegs(p), PathSegs(q)) \/ IsPrefixSeq(PathSegs(q), PathSegs(p))

ProperPrefix(p, q) ==
    IsPrefixSeq(PathSegs(p), PathSegs(q)) /\ Len(PathSegs(p)) < Len(PathSegs(q))

ArrayEntries(mcfg) == IF IsSome(mcfg.array) THEN Range(Unwrap(mcfg.array)) ELSE {}

ArrayPaths(mcfg) == {e[1] : e \in ArrayEntries(mcfg)}

KeepLikePaths(mcfg) == Range(mcfg.keep_paths) \cup Range(mcfg.nosync_paths)

\* Every intermediate of the path is an Object or missing in the document.
IntermediatesAreObjects(json, path) ==
    \A n \in 0..(Len(PathSegs(path)) - 1) :
        LET v == WalkSegs(json, SubSeq(PathSegs(path), 1, n))
        IN  IsSome(v) => IsObj(Unwrap(v))

ProbePaths == {PX, PY, PXB, <<"y", ".", "b">>}

NoDuplicates(a) ==
    \A i, j \in 1..Len(a) : i < j => ~JsonEq(a[i], a[j])

NotIn(a, v) == \A i \in 1..Len(a) : ~JsonEq(a[i], v)

\* The elements of sa that da does not hold, each once, in sa's order.
RECURSIVE NewElements(_, _, _)
NewElements(sa, da, seen) ==
    IF sa = <<>> THEN <<>>
    ELSE IF NotIn(da, Head(sa)) /\ NotIn(seen, Head(sa))
    THEN <<Head(sa)>> \o NewElements(Tail(sa), da, Append(seen, Head(sa)))
    ELSE NewElements(Tail(sa), da, seen)

MergedAt(path) == get_json_path(Unwrap(mg.result), path)

C4_ArrayUnion_AsClaimed ==
    mg.pc = "done" =>
        \A e \in ArrayEntries(mg.mcfg) :
            LET sv == get_json_path(mg.src_json, e[1])
                dv == get_json_path(mg.dst_json, e[1])
            IN  (/\ e[2] = "union"
                 /\ IsSome(sv) /\ IsArr(Unwrap(sv))
                 /\ IsSome(dv) /\ IsArr(Unwrap(dv)))
                    => /\ MergedAt(e[1]) =
                            Some(JArr(Unwrap(dv).arr \o
                                      NewElements(Unwrap(sv).arr, Unwrap(dv).arr, <<>>)))
                       /\ NoDuplicates(Unwrap(MergedAt(e[1])).arr)

\* C4 amended: a union path holds the destination array's elements, then the
\* template's elements the destination lacks, each once; it holds no element
\* twice when the destination array holds none twice.
C4_ArrayUnion ==
    mg.pc = "done" =>
        \A e \in ArrayEntries(mg.mcfg) :
            LET sv == get_json_path(mg.src_json, e[1])
                dv == get_json_path(mg.dst_json, e[1])
            IN  (/\ e[2] = "union"
                 /\ IsSome(sv) /\ IsArr(Unwrap(sv))
                 /\ IsSome(dv) /\ IsArr(Unwrap(dv)))
                    => /\ MergedAt(e[1]) =
                            Some(JArr(Unwrap(dv).arr \o
                                      NewElements(Unwrap(sv).arr, Unwrap(dv).arr, <<>>)))
                       /\ NoDuplicates(Unwrap(dv).arr)
                            => NoDuplicates(Unwrap(MergedAt(e[1])).arr)

\* C4 witness: template [1,2] and destination [2] under union give [2,1].
C4_Witness ==
    /\ mg.pc = "done"
    /\ mg.mcfg.array = Some(<< <<PX, "union">> >>)
    /\ get_json_path(mg.src_json, PX) = Some(JArr(<<JNum(1), JNum(2)>>))
    /\ get_json_path(mg.dst_json, PX) = Some(JArr(<<JNum(2)>>))
    /\ MergedAt(PX) = Some(JArr(<<JNum(2), JNum(1)>>))

\* The key paths of a document, as sequences of keys.
RECURSIVE KeyPaths(_)
KeyPaths(json) ==
    IF IsObj(json)
    THEN UNION {{<<json.obj[i].k>>}
                \cup {<<json.obj[i].k>> \o p : p \in KeyPaths(json.obj[i].v)} :
                i \in 1..Len(json.obj)}
    ELSE {}

ConfiguredPaths(mcfg) ==
    Range(mcfg.override_paths) \cup KeepLikePaths(mcfg) \cup ArrayPaths(mcfg)

\* The key path is no configured path, no ancestor and no descendant of one.
OutsideConfigured(mcfg, segs) ==
    \A p \in ConfiguredPaths(mcfg) :
        ~IsPrefixSeq(PathSegs(p), segs) /\ ~IsPrefixSeq(segs, PathSegs(p))

\* C29: every key path of the template that is no configured path (override,
\* keep, nosync or array strategy), no ancestor and no descendant of one,
\* holds in the merged result the template's value; every key path of the
\* merged result that is outside the configured paths in the same sense is a
\* key path of the template; and the template and the destination are after
\* the merge the documents the result was computed from.
C29_MergeFrame ==
    mg.pc = "done" =>
        LET result == Unwrap(mg.result)
        IN  /\ \A s \in KeyPaths(mg.src_json) :
                  OutsideConfigured(mg.mcfg, s)
                      => WalkSegs(result, s) = WalkSegs(mg.src_json, s)
            /\ \A s \in KeyPaths(result) :
                  OutsideConfigured(mg.mcfg, s) => s \in KeyPaths(mg.src_json)
            /\ result = MergeJson(mg.src_json, mg.dst_json, mg.mcfg)

\* C29 witness: the keep path x.b took the destination's array, and the
\* template's y, outside the configured paths, is where it was.
C29_Witness ==
    /\ mg.pc = "done"
    /\ mg.mcfg.keep_paths = <<PXB>>
    /\ mg.mcfg.override_paths = <<>>
    /\ mg.mcfg.nosync_paths = <<>>
    /\ mg.mcfg.array = None
    /\ mg.src_json = Doc2(KX, Doc1(KB, JNum(1)), KY, YVal)
    /\ mg.dst_json = Doc1(KX, Doc1(KB, JArr(<<JNum(2)>>)))
    /\ Unwrap(mg.result) = Doc2(KX, Doc1(KB, JArr(<<JNum(2)>>)), KY, YVal)

\* The two paths name the same keys.
SamePath(p, q) == PathSegs(p) = PathSegs(q)

\* The array entries that act: a union over a template array, any other
\* strategy over a template value.
Acts(e) ==
    LET sv == get_json_path(mg.src_json, e[1])
    IN  IsSome(sv) /\ (e[2] = "union" => IsArr(Unwrap(sv)))

\* The entry is the last acting one for its path.
LastActing(arr, i) ==
    /\ Acts(arr[i])
    /\ \A j \in (i + 1)..Len(arr) : ~(SamePath(arr[j][1], arr[i][1]) /\ Acts(arr[j]))

\* What the entry puts at its path.
ArrayValue(e) ==
    LET sv == Unwrap(get_json_path(mg.src_json, e[1]))
        dv == get_json_path(mg.dst_json, e[1])
        da == IF IsSome(dv) /\ IsArr(Unwrap(dv)) THEN Unwrap(dv).arr ELSE <<>>
    IN  IF e[2] = "union" THEN Some(JArr(da \o NewElements(sv.arr, da, <<>>)))
        ELSE Some(sv)

ArrayList(mcfg) == IF IsSome(mcfg.array) THEN Unwrap(mcfg.array) ELSE <<>>

\* Only override paths are configured.
OverrideOnly(mcfg) ==
    mcfg.keep_paths = <<>> /\ mcfg.nosync_paths = <<>> /\ ArrayList(mcfg) = <<>>

\* The keep paths moved to the end of the nosync paths, or the nosync paths
\* to the end of the keep paths.
AllAsNosync(mcfg) ==
    [mcfg EXCEPT !.keep_paths = <<>>, !.nosync_paths = mcfg.keep_paths \o mcfg.nosync_paths]

AllAsKeep(mcfg) ==
    [mcfg EXCEPT !.keep_paths = mcfg.keep_paths \o mcfg.nosync_paths, !.nosync_paths = <<>>]

\* Override paths alone give the template; nosync paths act as keep paths;
\* a path that is both an override and a keep path, and that no array path
\* reaches, holds the destination's value, or nothing when the destination
\* has none.
StepsBeforeArrays ==
    /\ OverrideOnly(mg.mcfg) => Unwrap(mg.result) = mg.src_json
    /\ Unwrap(mg.result) = MergeJson(mg.src_json, mg.dst_json, AllAsNosync(mg.mcfg))
    /\ Unwrap(mg.result) = MergeJson(mg.src_json, mg.dst_json, AllAsKeep(mg.mcfg))
    /\ \A p \in Range(mg.mcfg.override_paths) :
          (/\ \E q \in KeepLikePaths(mg.mcfg) : SamePath(p, q)
           /\ \A a \in ArrayPaths(mg.mcfg) : ~Overlap(p, a))
              => MergedAt(p) = get_json_path(mg.dst_json, p)

MaxSegs == 2

KDX == <<"$", "x">>

RECURSIVE JoinSegs(_)
JoinSegs(segs) ==
    IF segs = <<>> THEN <<>>
    ELSE IF Len(segs) = 1 THEN Head(segs)
    ELSE Head(segs) \o <<".">> \o JoinSegs(Tail(segs))

PathText(lead, segs) == lead \o JoinSegs(segs)

Leads == {<<>>, <<"$">>, <<"$", ".">>}

\* Key lists; a key that starts with "$" is written after a lead.
SegLists == BSeq({KX, KB, KDX}, MaxSegs)

PathDocs ==
    {JNull, JArr(<<>>), EmptyObj,
     Doc1(KX, JNum(1)), Doc1(KX, JArr(<<JNum(1)>>)), Doc1(KX, EmptyObj),
     Doc1(KX, Doc1(KB, JNum(1))), Doc2(KX, Doc1(KB, JNum(1)), KB, JNum(2)),
     Doc2(KDX, JNum(1), KX, Doc1(KX, JNull))}

PathVals == {None, Some(JNum(3)), Some(EmptyObj)}

InitPath ==
    /\ pa \in {r \in [pc : {"start"}, doc : PathDocs, lead : Leads, segs : SegLists,
                      val : PathVals, before : {None}, got : {None}] :
                  (r.lead = <<>> /\ r.segs # <<>>) => r.segs[1] # KDX}
    /\ mg = MgIdle /\ sy = SyIdle /\ ck = CkIdle /\ fm = FmIdle /\ rs = RsIdle /\ cv = CvIdle

\* get_json_path over the document as it is now.
GetPath ==
    /\ pa.pc \in {"start", "set"}
    /\ pa' = [pa EXCEPT
                 !.pc = IF pa.pc = "start" THEN "got" ELSE "set_got",
                 !.got = Some(get_json_path(pa.doc, PathText(pa.lead, pa.segs)))]
    /\ UNCHANGED <<mg, sy, ck, fm, rs, cv>>

\* set_path of the value, or of None, on the document.
SetPath ==
    /\ pa.pc \in {"start", "got"}
    /\ pa' = [pa EXCEPT
                 !.pc = "set",
                 !.before = Some(pa.doc),
                 !.got = None,
                 !.doc = set_path(pa.doc, PathText(pa.lead, pa.segs), pa.val)]
    /\ UNCHANGED <<mg, sy, ck, fm, rs, cv>>

NextPath == GetPath \/ SetPath

SpecPath == InitPath /\ [][NextPath]_vars

(***************************************************************************)
(* Vocabulary of the claims about paths.                                   *)
(***************************************************************************)
\* The value reached from the document by the keys, one Object at a time.
RECURSIVE ValueAt(_, _)
ValueAt(doc, segs) ==
    IF segs = <<>> THEN Some(doc)
    ELSE IF "obj" \in DOMAIN doc /\ \E i \in 1..Len(doc.obj) : doc.obj[i].k = Head(segs)
    THEN ValueAt((CHOOSE e \in Range(doc.obj) : e.k = Head(segs)).v, Tail(segs))
    ELSE None

\* Some key is missing, or a value on the way to the last key is no Object.
Unreachable(doc, segs) ==
    \E n \in 1..Len(segs) :
        LET at == ValueAt(doc, SubSeq(segs, 1, n - 1))
        IN  /\ IsSome(at)
            /\ \/ ~IsObj(Unwrap(at))
               \/ \A i \in 1..Len(Unwrap(at).obj) : Unwrap(at).obj[i].k # segs[n]

\* The document and every value on the way to the last key's parent is an
\* Object, or is not there.
ParentsAreObjectsOrMissing(doc, segs) ==
    \A n \in 0..(Len(segs) - 1) :
        LET at == ValueAt(doc, SubSeq(segs, 1, n))
        IN  IsSome(at) => IsObj(Unwrap(at))

\* C16: get returns the value reached by walking the keys of the path from
\* the document, the whole document for a path without keys, whether or not
\* the path starts with "$"; it returns nothing exactly when a key is missing
\* or a value on the way is not an Object.
C16_PathGet ==
    pa.pc \in {"got", "set_got"} =>
        /\ Unwrap(pa.got) = ValueAt(pa.doc, pa.segs)
        /\ Unwrap(pa.got) = None <=> Unreachable(pa.doc, pa.segs)

\* C16 witness: $.x.b read from {"x": {"b": 1}} is 1, and the same path read
\* from a document whose x is a number is nothing.
C16_Witness ==
    /\ pa.pc = "got"
    /\ pa.lead = <<"$", ".">>
    /\ pa.segs = <<KX, KB>>
    /\ pa.doc = Doc1(KX, Doc1(KB, JNum(1)))
    /\ pa.got = Some(Some(JNum(1)))

\* The path is not written with "$" twice at its start.
SingleDollar == ~(pa.lead = <<"$">> /\ pa.segs # <<>> /\ Head(pa.segs[1]) = "$")

\* C17 as claimed: set with None takes the last key out of its parent when
\* the key is there, and otherwise leaves the whole document as it was,
\* adding no Object on the way to a parent that is not there.
C17_PathDelete_AsClaimed ==
    (pa.pc \in {"set", "set_got"} /\ pa.val = None /\ pa.segs # <<>> /\ SingleDollar) =>
        IF IsSome(ValueAt(Unwrap(pa.before), pa.segs))
        THEN /\ ValueAt(pa.doc, pa.segs) = None
             /\ ValueAt(pa.doc, SubSeq(pa.segs, 1, Len(pa.segs) - 1)) # None
        ELSE pa.doc = Unwrap(pa.before)

\* C18 as claimed: set with a value leaves the whole document as it was when
\* a value on the way to the last key is there and is no Object; otherwise it
\* creates the missing Objects on the way and get of the same path returns
\* the value set.
C18_PathSet_AsClaimed ==
    (pa.pc = "set_got" /\ pa.val # None /\ pa.before # None) =>
        IF ParentsAreObjectsOrMissing(Unwrap(pa.before), pa.segs)
        THEN /\ pa.got = Some(pa.val)
             /\ \A n \in 0..(Len(pa.segs) - 1) :
                   LET at == ValueAt(pa.doc, SubSeq(pa.segs, 1, n))
                   IN  IsSome(at) /\ IsObj(Unwrap(at))
        ELSE pa.doc = Unwrap(pa.before)

(***************************************************************************)
(* Files and text.  A file is None when it is missing or unreadable, else  *)
(* Some text.  A text is the document it parses to together with how it is *)
(* written: "pretty" is the output of serde_json::to_string_pretty (one    *)
(* text per ordered document), "compact" is any other spelling of the same *)
(* document, and "garbage" does not parse.                                 *)
(***************************************************************************)
PrettyText(v) == [fmt |-> "pretty", json |-> v]

CompactText(v) == [fmt |-> "compact", json |-> v]

GarbageText == [fmt |-> "garbage"]

to_string_pretty(v) == PrettyText(v)

\* serde_json::from_str: None stands for Err.
from_str(s) == IF s.fmt = "garbage" THEN None ELSE Some(s.json)

\* The hash and length of the text; distinct texts of the model get
\* distinct fingerprints.
fingerprint(s) == [hash |-> s]

\* The fingerprint of what the destination holds now, None when unreadable.
\* The checksum file is not consulted.
cur_fp_FromChecksumFile(dst, chk) == chk

cur_fp(dst, chk) == IF IsSome(dst) THEN Some(fingerprint(Unwrap(dst))) ELSE None

\* No content counts as the destination's.
same_content_Never(src, dst) == FALSE

same_content(src, dst) == IsSome(src) /\ IsSome(dst) /\ Unwrap(src) = Unwrap(dst)

Outcome(wrote, would_write, dst, chk, errors, out, via) ==
    [wrote |-> wrote, would_write |-> would_write, dst |-> dst, chk |-> chk,
     errors |-> errors, out |-> out, via |-> via]

\* copy_rule for a source that is a regular file.
copy_rule(src, dst, chk, write, copy_fail) ==
    IF ~IsSome(src) THEN Outcome(FALSE, FALSE, dst, chk, <<>>, None, "copy")
    ELSE IF same_content(src, dst) THEN Outcome(FALSE, FALSE, dst, chk, <<>>, None, "copy")
    ELSE IF ~write THEN Outcome(FALSE, TRUE, dst, chk, <<>>, None, "copy")
    ELSE IF copy_fail THEN Outcome(FALSE, TRUE, dst, chk, <<"copy">>, None, "copy")
    ELSE Outcome(TRUE, TRUE, src, chk, <<>>, None, "copy")

\* The template does not parse and the run reports an error instead.
ParseFallback_Fails(src, dst, chk, write, copy_fail) ==
    Outcome(FALSE, FALSE, dst, chk, <<"parse">>, None, "none")

\* The Err arm of serde_json::from_str(&src_str): the rule is handed to
\* copy_rule and its verdict returned.
ParseFallback(src, dst, chk, write, copy_fail) ==
    copy_rule(src, dst, chk, write, copy_fail)

apply_json_merge(src, dst, chk, mcfg, write, chk_fail, dst_fail) ==
    IF ~IsSome(src) THEN Outcome(FALSE, FALSE, dst, chk, <<>>, None, "none")
    ELSE IF ~IsSome(from_str(Unwrap(src)))
    THEN ParseFallback(src, dst, chk, write, dst_fail)
    ELSE
        LET src_json == Unwrap(from_str(Unwrap(src)))
            dst_json == IF IsSome(dst) /\ IsSome(from_str(Unwrap(dst)))
                        THEN Unwrap(from_str(Unwrap(dst)))
                        ELSE JNull
            result   == MergeJson(src_json, dst_json, mcfg)
            out_str  == to_string_pretty(result)
            out_fp   == fingerprint(out_str)
        IN  IF Some(out_fp) = cur_fp(dst, chk)
            THEN Outcome(FALSE, FALSE, dst, chk, <<>>, Some(out_str), "merge")
            ELSE IF ~write
            THEN Outcome(FALSE, TRUE, dst, chk, <<>>, Some(out_str), "merge")
            ELSE Outcome(~dst_fail, TRUE,
                         IF dst_fail THEN dst ELSE Some(out_str),
                         IF chk_fail THEN chk ELSE Some(out_fp),
                         (IF chk_fail THEN <<"checksum">> ELSE <<>>) \o
                         (IF dst_fail THEN <<"merged">> ELSE <<>>),
                         Some(out_str), "merge")

(***************************************************************************)
(* Runs of the structured merge of one rule over one workspace: the        *)
(* template, the destination and the checksum file, with each run's        *)
(* verdict logged.  Between runs the destination may be edited by hand.    *)
(***************************************************************************)
MaxRuns == 2

SyncTemplateDocs ==
    {Doc2(KX, JArr(<<JNum(1)>>), KY, YVal),
     Doc2(KX, Doc1(KB, JArr(<<JNum(1)>>)), KY, YVal),
     Doc2(KX, JNum(1), KY, YVal)}

SyncTemplates ==
    {None, Some(GarbageText), Some(CompactText(Doc1(KY, YVal)))}
    \cup {Some(PrettyText(d)) : d \in SyncTemplateDocs}

SyncDestDocs ==
    {EmptyObj, Doc1(KY, YVal),
     Doc2(KX, JArr(<<JNum(2)>>), KY, YVal),
     Doc2(KY, YVal, KX, JArr(<<JNum(1)>>)),
     Doc1(KX, Doc1(KB, JArr(<<JNum(2)>>)))}

SyncDests ==
    {None, Some(GarbageText)}
    \cup {Some(PrettyText(d)) : d \in SyncDestDocs}
    \cup {Some(CompactText(Doc2(KX, JArr(<<JNum(2)>>), KY, YVal)))}

MCfg(keep, nosync, array) ==
    [override_paths |-> <<>>, keep_paths |-> keep, nosync_paths |-> nosync,
     array |-> array]

SyncCfgs ==
    {MCfg(<<>>, <<>>, None),
     MCfg(<<PX>>, <<>>, None),
     MCfg(<<PX>>, <<>>, Some(<< <<PX, "union">> >>)),
     MCfg(<<PX>>, <<>>, Some(<< <<PX, "replace">> >>)),
     MCfg(<<>>, <<PXB>>, None),
     MCfg(<<>>, <<>>, Some(<< <<PXB, "union">> >>)),
     MCfg(<<PX>>, <<PXB>>, None)}

EditText == Some(CompactText(Doc1(KY, YVal)))

InitSync ==
    /\ sy \in [pc : {"ready"}, src : SyncTemplates, dst : SyncDests,
               chk : {None}, mcfg : SyncCfgs, errors : {<<>>}, log : {<<>>}]
    /\ mg = MgIdle /\ ck = CkIdle /\ fm = FmIdle /\ pa = PaIdle /\ rs = RsIdle /\ cv = CvIdle

\* One run of apply_json_merge, with or without --write; the two writes may
\* fail.
ApplyJsonMerge ==
    /\ sy.pc = "ready"
    /\ Len(sy.log) < MaxRuns
    /\ \E write \in BOOLEAN, chk_fail \in BOOLEAN, dst_fail \in BOOLEAN :
          LET o == apply_json_merge(sy.src, sy.dst, sy.chk, sy.mcfg, write,
                                    chk_fail, dst_fail)
          IN  sy' = [sy EXCEPT
                        !.dst = o.dst,
                        !.chk = o.chk,
                        !.errors = @ \o o.errors,
                        !.log = Append(@, [write |-> write,
                                           dst_before |-> sy.dst,
                                           chk_before |-> sy.chk,
                                           dst_after |-> o.dst,
                                           chk_after |-> o.chk,
                                           wrote |-> o.wrote,
                                           would_write |-> o.would_write,
                                           out |-> o.out,
                                           errors |-> o.errors,
                                           via |-> o.via])]
    /\ UNCHANGED <<mg, ck, fm, pa, rs, cv>>

\* The user edits the destination after a run.
EditDestination ==
    /\ sy.pc = "ready"
    /\ sy.log # <<>>
    /\ Len(sy.log) < MaxRuns
    /\ sy.dst = sy.log[Len(sy.log)].dst_after
    /\ sy.dst # EditText
    /\ sy' = [sy EXCEPT !.dst = EditText]
    /\ UNCHANGED <<mg, ck, fm, pa, rs, cv>>

NextSync == ApplyJsonMerge \/ EditDestination

SpecSync == InitSync /\ [][NextSync]_vars

(***************************************************************************)
(* Vocabulary of the claims about runs.                                    *)
(***************************************************************************)
\* Run i wrote the merged text with --write and run i+1 found the
\* destination as run i left it.
FollowsMergeWrite(i) ==
    /\ sy.log[i].via = "merge"
    /\ sy.log[i].write
    /\ sy.log[i].wrote
    /\ sy.log[i + 1].dst_before = sy.log[i].dst_after

NothingWritten(r) ==
    /\ ~r.would_write
    /\ ~r.wrote
    /\ r.dst_after = r.dst_before
    /\ r.chk_after = r.chk_before

\* C5 as claimed: the run after a merge that wrote, over an unchanged
\* destination, computes the same output, reports would_write = false and
\* wrote = false, and rewrites neither the destination nor the checksum file.
C5_ChecksumShortCircuit_AsClaimed ==
    \A i \in 1..(Len(sy.log) - 1) :
        FollowsMergeWrite(i)
            => /\ sy.log[i + 1].out = sy.log[i].out
               /\ NothingWritten(sy.log[i + 1])

\* C5 amended: the run after a merge that wrote, over an unchanged
\* destination, computes the same document up to the order of object keys;
\* when its output is the same text, it reports would_write = false and
\* wrote = false and rewrites neither the destination nor the checksum file.
C5_ChecksumShortCircuit ==
    \A i \in 1..(Len(sy.log) - 1) :
        FollowsMergeWrite(i)
            => /\ sy.log[i + 1].via = "merge"
               /\ JsonEq(Unwrap(sy.log[i + 1].out).json, Unwrap(sy.log[i].out).json)
               /\ sy.log[i + 1].out = sy.log[i].out => NothingWritten(sy.log[i + 1])

\* C5 witness: a second run with --write right after a merge that wrote a
\* text different from what the destination held, changing nothing.
C5_Witness ==
    /\ Len(sy.log) >= 2
    /\ FollowsMergeWrite(1)
    /\ sy.log[1].dst_before # sy.log[1].dst_after
    /\ sy.log[1].chk_after # sy.log[1].chk_before
    /\ sy.log[2].write
    /\ sy.log[2].out = sy.log[1].out
    /\ NothingWritten(sy.log[2])

\* C20: when the template is readable and does not parse, a run takes the
\* copy path and its verdict and files are those of copy_rule: nothing
\* happens when the destination already holds the template's text; otherwise
\* would_write is true and, with --write, the destination becomes the
\* template's text, or stays as it was when the copy fails, the only case in
\* which an error is reported; no merged text is computed and the checksum
\* file is not touched.
C20_MergeFallback ==
    \A i \in 1..Len(sy.log) :
        (IsSome(sy.src) /\ from_str(Unwrap(sy.src)) = None) =>
            LET r == sy.log[i]
            IN  /\ r.via = "copy"
                /\ r.out = None
                /\ r.chk_after = r.chk_before
                /\ \E f \in BOOLEAN :
                      LET o == copy_rule(sy.src, r.dst_before, r.chk_before, r.write, f)
                      IN  /\ r.wrote = o.wrote /\ r.would_write = o.would_write
                          /\ r.dst_after = o.dst /\ r.errors = o.errors
                /\ IF r.dst_before = sy.src
                   THEN NothingWritten(r) /\ r.errors = <<>>
                   ELSE /\ r.would_write
                        /\ r.wrote => (r.write /\ r.dst_after = sy.src /\ r.errors = <<>>)
                        /\ ~r.wrote => r.dst_after = r.dst_before
                        /\ r.errors # <<>> => (r.write /\ ~r.wrote /\ r.errors = <<"copy">>)
                        /\ (r.write /\ ~r.wrote) => r.errors = <<"copy">>

\* C20 witness: a template that does not parse was copied with --write over
\* a destination that held a JSON document.
C20_Witness ==
    /\ Len(sy.log) >= 1
    /\ sy.src = Some(GarbageText)
    /\ sy.log[1].write
    /\ sy.log[1].wrote
    /\ sy.log[1].via = "copy"
    /\ IsSome(sy.log[1].dst_before)
    /\ from_str(Unwrap(sy.log[1].dst_before)) # None
    /\ sy.log[1].dst_after = Some(GarbageText)
    /\ sy.log[1].errors = <<>>

\* C28 as the specification states it: a run changes the checksum file only
\* when it also writes the merged text to the destination, and the
\* fingerprint on record after a run is that of the text sync wrote last.
\* The code writes the checksum file before the destination and keeps it
\* when the write of the destination then fails.
C28_ChecksumConsistency_AsClaimed ==
    \A i \in 1..Len(sy.log) :
        /\ sy.log[i].chk_after # sy.log[i].chk_before
              => sy.log[i].wrote /\ sy.log[i].via = "merge"
        /\ IsSome(sy.log[i].chk_after)
              => \E j \in 1..i :
                    /\ sy.log[j].wrote
                    /\ \A k \in (j + 1)..i : ~sy.log[k].wrote
                    /\ Unwrap(sy.log[i].chk_after)
                          = fingerprint(Unwrap(sy.log[j].dst_after))

(***************************************************************************)
(* The file tree a sync run works on.  A path is a sequence of names; the  *)
(* tree maps every path that exists to a directory or a file holding a     *)
(* text.  The empty path is the repository root.  A rule's source is a     *)
(* node of the convention's template tree, which a run only reads.         *)
(***************************************************************************)
NoNode == [kind |-> "absent"]

DirNode == [kind |-> "dir"]

FileNode(text) == [kind |-> "file", text |-> text]

\* A template directory: entries is a sequence of <<name, node>>.
SrcDir(entries) == [kind |-> "dir", entries |-> entries]

\* A text that is not JSON.
PlainText(body) == [fmt |-> "garbage", body |-> body]

Parent(p) == SubSeq(p, 1, Len(p) - 1)

Prefixes(p) == {SubSeq(p, 1, n) : n \in 1..Len(p)}

is_dir(fs, p) == p = <<>> \/ (p \in DOMAIN fs /\ fs[p].kind = "dir")

is_file(fs, p) == p \in DOMAIN fs /\ fs[p].kind = "file"

\* fs::create_dir_all: every missing directory on the way is created; when a
\* file is in the way nothing is (the callers drop the error).
create_dir_all(fs, p) ==
    IF \E q \in Prefixes(p) : is_file(fs, q) THEN fs
    ELSE [q \in DOMAIN fs \cup Prefixes(p) |->
             IF q \in Prefixes(p) THEN DirNode ELSE fs[q]]

\* fs::write and fs::copy succeed when the parent is a directory, the path is
\* not one, and the write is not among the failing ones (permissions, disk).
CanWrite(fs, p, faults) == p \notin faults /\ is_dir(fs, Parent(p)) /\ ~is_dir(fs, p)

WriteFile(fs, p, text) ==
    [q \in DOMAIN fs \cup {p} |-> IF q = p THEN FileNode(text) ELSE fs[q]]

read_to_string(fs, p) == IF is_file(fs, p) THEN Some(fs[p].text) ELSE None

\* F applied to the value of v, which is computed once.
Once(v, F(_)) == CHOOSE r \in {F(x) : x \in {v}} : TRUE

RunError(what, path) == [what |-> what, path |-> path]

Verdict(fs, wrote, would_write, errors) ==
    [fs |-> fs, wrote |-> wrote, would_write |-> would_write, errors |-> errors]

\* str::replace('/', "__") over the target's path.
RECURSIVE Flat(_)
Flat(p) ==
    IF Len(p) = 1 THEN p[1] ELSE p[1] \o "__" \o Flat(Tail(p))

\* checksum_path with the template directory as root.
checksum_path(target) ==
    <<"conv", ".rigra", "sync", "checksums", Flat(target) \o ".chk">>

\* Failures are printed and not collected.
ErrorsAt_Dropped(errors, dst) == <<>>

\* The file an error of apply_json_merge or copy_rule is about.
ErrorsAt(errors, dst) ==
    [i \in 1..Len(errors) |->
        RunError(errors[i], IF errors[i] = "checksum" THEN checksum_path(dst) ELSE dst)]

\* copy_rule for a source that is a file, on the tree: the parent of the
\* destination is created as soon as the contents differ, before write is
\* looked at.
copy_file(fs, src, dst, write, faults) ==
    Once(create_dir_all(fs, Parent(dst)), LAMBDA ready :
    Once(copy_rule(Some(src.text), read_to_string(fs, dst), None, write,
                   ~CanWrite(ready, dst, faults)), LAMBDA o :
        Verdict(IF o.wrote THEN WriteFile(ready, dst, src.text)
                ELSE IF o.would_write THEN ready
                ELSE fs,
                o.wrote, o.would_write, ErrorsAt(o.errors, dst))))

\* copy_rule: a file is copied, a directory is walked entry by entry, and
\* anything else is passed over.
RECURSIVE copy_tree(_, _, _, _, _)
RECURSIVE copy_entries(_, _, _, _, _)
copy_tree(fs, src, dst, write, faults) ==
    IF src.kind = "file" THEN copy_file(fs, src, dst, write, faults)
    ELSE IF src.kind = "dir"
    THEN Once(IF write THEN create_dir_all(fs, dst) ELSE fs, LAMBDA made :
             copy_entries(made, src.entries, dst, write, faults))
    ELSE Verdict(fs, FALSE, FALSE, <<>>)

copy_entries(fs, entries, dst, write, faults) ==
    IF entries = <<>> THEN Verdict(fs, FALSE, FALSE, <<>>)
    ELSE Once(copy_tree(fs, Head(entries)[2], Append(dst, Head(entries)[1]),
                        write, faults), LAMBDA h :
         Once(copy_entries(h.fs, Tail(entries), dst, write, faults), LAMBDA t :
             Verdict(t.fs, h.wrote \/ t.wrote, h.would_write \/ t.would_write,
                     h.errors \o t.errors)))

\* apply_json_merge on the tree: the verdict and the texts are those of
\* apply_json_merge; with write and a differing output the checksum file and
\* then the destination are written, each after its parent directories
\* (ensure_parent), and each write fails or succeeds on its own.
merge_file(fs, src, dst, mcfg, write, faults) ==
    LET cpath   == checksum_path(dst)
        srctext == IF src.kind = "file" THEN Some(src.text) ELSE None
        dsttext == read_to_string(fs, dst)
        chktext == read_to_string(fs, cpath)
    IN  Once(create_dir_all(fs, Parent(cpath)), LAMBDA with_c :
        Once(~CanWrite(with_c, cpath, faults), LAMBDA chk_fail :
        Once(apply_json_merge(srctext, dsttext, chktext, mcfg, write, chk_fail, TRUE),
             LAMBDA probe :
            IF probe.via = "copy" THEN copy_file(fs, src, dst, write, faults)
            ELSE IF ~(write /\ probe.would_write)
            THEN Verdict(fs, probe.wrote, probe.would_write, <<>>)
            ELSE
                Once(IF chk_fail THEN with_c
                     ELSE WriteFile(with_c, cpath, Unwrap(probe.chk)), LAMBDA after_c :
                Once(create_dir_all(after_c, Parent(dst)), LAMBDA with_d :
                Once(apply_json_merge(srctext, dsttext, chktext, mcfg, write, chk_fail,
                                      ~CanWrite(with_d, dst, faults)), LAMBDA o :
                    Verdict(IF o.wrote THEN WriteFile(with_d, dst, Unwrap(o.dst))
                            ELSE with_d,
                            o.wrote, o.would_write, ErrorsAt(o.errors, dst))))))))

(***************************************************************************)
(* run_sync: the rules of the policy in order, filtered by the ignore list *)
(* and by `when`.  Texts the code takes apart (`when`, the scope, the      *)
(* format) are sequences of characters.                                    *)
(***************************************************************************)
Str(s) == [i \in 1..Len(s) |-> SubSeq(s, i, i)]

to_ascii_lowercase(c) ==
    LET upper == Str("ABCDEFGHIJKLMNOPQRSTUVWXYZ")
        lower == Str("abcdefghijklmnopqrstuvwxyz")
    IN  IF \E i \in 1..26 : upper[i] = c
        THEN lower[CHOOSE i \in 1..26 : upper[i] = c]
        ELSE c

eq_ignore_ascii_case(a, b) ==
    /\ Len(a) = Len(b)
    /\ \A i \in 1..Len(a) : to_ascii_lowercase(a[i]) = to_ascii_lowercase(b[i])

\* str::split on a set of separators.
RECURSIVE SplitAny(_, _)
SplitAny(s, seps) ==
    IF \E i \in 1..Len(s) : s[i] \in seps
    THEN LET i == CHOOSE x \in 1..Len(s) :
                    s[x] \in seps /\ \A y \in 1..(x - 1) : s[y] \notin seps
         IN  <<SubSeq(s, 1, i - 1)>> \o SplitAny(SubSeq(s, i + 1, Len(s)), seps)
    ELSE <<s>>

\* Tokens compared letter for letter.
is_rule_enabled_CaseSensitive(when, scope) ==
    LET w == Trim(when)
    IN  \/ w = <<>>
        \/ w = Str("*")
        \/ eq_ignore_ascii_case(w, Str("any"))
        \/ eq_ignore_ascii_case(w, Str("all"))
        \/ \E tok \in Range(SplitAny(w, {",", "|"})) :
              Trim(tok) # <<>> /\ Trim(tok) = scope

is_rule_enabled(when, scope) ==
    LET w == Trim(when)
    IN  \/ w = <<>>
        \/ w = Str("*")
        \/ eq_ignore_ascii_case(w, Str("any"))
        \/ eq_ignore_ascii_case(w, Str("all"))
        \/ \E tok \in Range(SplitAny(w, {",", "|"})) :
              Trim(tok) # <<>> /\ eq_ignore_ascii_case(Trim(tok), scope)

SyncRule(id, source, target, when, format) ==
    [id |-> id, source |-> source, target |-> target, when |-> when,
     format |-> format]

\* The client's entry for a rule id: an optional target and an optional
\* merge configuration.
SyncClientCfg(target, merge) == [target |-> target, merge |-> merge]

\* rigra.toml's sync table: the per-id entries and the ignored ids.
ClientCfg(config, ignore) == [config |-> config, ignore |-> ignore]

ClientOf(cfg, id) == IF id \in DOMAIN cfg.config THEN Some(cfg.config[id]) ELSE None

\* apply_sync: the structured merge when the rule's format is json and the
\* client configures a merge for the rule, else the copy.
apply_sync(fs, rule, dst, client, write, faults) ==
    IF /\ IsSome(rule.format)
       /\ eq_ignore_ascii_case(Unwrap(rule.format), Str("json"))
       /\ IsSome(client)
       /\ IsSome(Unwrap(client).merge)
    THEN merge_file(fs, rule.source, dst, Unwrap(Unwrap(client).merge), write, faults)
    ELSE copy_tree(fs, rule.source, dst, write, faults)

SyncAction(rule, dst, wrote, would_write) ==
    [rule_id |-> rule.id, target |-> dst, wrote |-> wrote, format |-> rule.format,
     would_write |-> would_write]

Report(fs, actions, errors) == [fs |-> fs, actions |-> actions, errors |-> errors]

\* The loop over policy.sync.
RECURSIVE SyncRules(_, _, _, _, _, _)
SyncRules(fs, rules, cfg, scope, write, faults) ==
    IF rules = <<>> THEN Report(fs, <<>>, <<>>)
    ELSE
        LET rule   == Head(rules)
            client == ClientOf(cfg, rule.id)
            dst    == IF IsSome(client) /\ IsSome(Unwrap(client).target)
                      THEN Unwrap(Unwrap(client).target)
                      ELSE rule.target
        IN  IF rule.id \in cfg.ignore \/ ~is_rule_enabled(rule.when, scope)
            THEN SyncRules(fs, Tail(rules), cfg, scope, write, faults)
            ELSE
                Once(apply_sync(fs, rule, dst, client, write, faults), LAMBDA v :
                Once(SyncRules(v.fs, Tail(rules), cfg, scope, write, faults), LAMBDA rest :
                    Report(rest.fs,
                           <<SyncAction(rule, dst, v.wrote, v.would_write)>> \o rest.actions,
                           v.errors \o rest.errors)))

\* run_sync: without a readable index and policy the run reports one error
\* and no action.
run_sync(fs, policy, cfg, scope, write, faults) ==
    IF ~IsSome(policy) THEN Report(fs, <<>>, <<RunError("policy", <<"conv">>)>>)
    ELSE SyncRules(fs, Unwrap(policy), cfg, scope, write, faults)

(***************************************************************************)
(* Runs of run_sync over one workspace: a policy of up to three rules (a   *)
(* JSON template merged into out/a.json, a file or a directory copied to   *)
(* out/b, a directory copied to lib/d), the client's configuration, the    *)
(* scope, and the tree as the runs leave it.  Each run is with or without  *)
(* write, and one of the writes may fail.                                  *)
(***************************************************************************)
TextA == PlainText("A")

TextB == PlainText("B")

TemplateDoc == Doc2(KX, JNum(1), KY, YVal)

LocalDoc == Doc2(KX, JNum(9), KY, YVal)

TargetA == <<"out", "a.json">>

TargetB == <<"out", "b">>

TargetD == <<"lib", "d">>

TargetW == <<"web", "b">>

TreeAB ==
    SrcDir(<< <<"e", FileNode(TextA)>>,
              <<"g", SrcDir(<< <<"e", FileNode(TextB)>> >>)>> >>)

JsonSources ==
    {NoNode, FileNode(PrettyText(TemplateDoc)), FileNode(CompactText(Doc1(KY, YVal))),
     FileNode(GarbageText)}

CopySources == {NoNode, FileNode(TextA), TreeAB}

Whens ==
    {Str(""), Str("*"), Str("any"), Str("ALL"), Str("repo"), Str("lib"),
     Str("repo|app"), Str("app, Repo"), Str("lib,,"), Str(" repo "), Str("*,lib"),
     Str("anyone"), Str("re")}

Scopes == {Str("repo"), Str("Lib"), Str("")}

RuleA(source, when, format) == SyncRule("r1", source, TargetA, when, Some(Str(format)))

RuleB(source, when) == SyncRule("r2", source, TargetB, when, None)

RuleD == SyncRule("r3", TreeAB, TargetD, Str("repo|lib"), Some(Str("yaml")))

\* Policies whose rules differ in their sources, policies whose rules differ
\* in `when`, and a policy of three rules; None is an index or a policy file
\* that does not load.
SourcePolicies ==
    {Some(<<RuleA(a, Str(""), "json"), RuleB(b, w)>>) :
        a \in JsonSources, b \in CopySources, w \in {Str("repo"), Str("lib")}}

WhenPolicies ==
    {Some(<<RuleB(FileNode(TextA), Str("repo|app")),
            RuleA(FileNode(PrettyText(TemplateDoc)), w, "JSON")>>) : w \in Whens}

OtherPolicies ==
    {None,
     Some(<<RuleA(FileNode(PrettyText(TemplateDoc)), Str("lib"), "json"),
            RuleB(FileNode(TextB), Str("any")), RuleD>>)}

KeepX == MCfg(<<PX>>, <<>>, None)

MergeOnly == ClientCfg([id \in {"r1"} |-> SyncClientCfg(None, Some(KeepX))], {})

ClientCfgs ==
    {ClientCfg(<<>>, {}),
     MergeOnly,
     ClientCfg([id \in {"r1", "r2"} |->
                   IF id = "r1" THEN SyncClientCfg(None, Some(KeepX))
                   ELSE SyncClientCfg(Some(TargetW), None)], {}),
     ClientCfg([id \in {"r1"} |-> SyncClientCfg(None, Some(KeepX))], {"r2"})}

\* The trees a first run may find: nothing but the convention; the targets
\* in place (a.json edited by hand, b as the template has it); a file where
\* the directory out should be.
BareTree == [p \in {<<"conv">>} |-> DirNode]

SyncedTree ==
    [p \in {<<"conv">>, <<"out">>, TargetA, TargetB} |->
        IF p = TargetA THEN FileNode(PrettyText(LocalDoc))
        ELSE IF p = TargetB THEN FileNode(TextA)
        ELSE DirNode]

BlockedTree ==
    [p \in {<<"conv">>, <<"out">>} |-> IF p = <<"out">> THEN FileNode(TextB) ELSE DirNode]

Trees == {BareTree, SyncedTree, BlockedTree}

\* The targets copied over from the templates by hand: a.json as the compact
\* template has it.
CopiedTree ==
    [p \in {<<"conv">>, <<"out">>, TargetA, TargetB} |->
        IF p = TargetA THEN FileNode(CompactText(Doc1(KY, YVal)))
        ELSE IF p = TargetB THEN FileNode(TextA)
        ELSE DirNode]

CopiedPolicies ==
    {Some(<<RuleA(FileNode(CompactText(Doc1(KY, YVal))), Str(""), "json"),
            RuleB(FileNode(TextA), Str("repo"))>>)}

\* The writes that fail in a run for reasons outside the tree.
FaultSets ==
    {{}, {TargetA}, {checksum_path(TargetA)}, {TargetA, checksum_path(TargetA)}, {TargetB}}

Workspace(policies, cfgs, scopes, trees) ==
    [pc : {"ready"}, policy : policies, cfg : cfgs, scope : scopes, fs : trees,
     runs : {0}, last : {None}]

InitRun ==
    /\ rs \in Workspace(SourcePolicies, ClientCfgs, {Str("repo")}, Trees)
              \cup Workspace(WhenPolicies, {MergeOnly}, Scopes, {BareTree})
              \cup Workspace(OtherPolicies, {MergeOnly}, {Str("Lib")}, Trees)
              \cup Workspace(CopiedPolicies, {MergeOnly, ClientCfg(<<>>, {})}, {Str("repo")},
                             {CopiedTree})
    /\ mg = MgIdle /\ sy = SyIdle /\ ck = CkIdle /\ fm = FmIdle /\ pa = PaIdle
    /\ cv = CvIdle

\* One run of run_sync; the run's arguments, the tree it found and what it
\* returned are kept in last.
RunSync ==
    /\ rs.pc = "ready"
    /\ rs.runs < MaxRuns
    /\ \E write \in BOOLEAN, faults \in FaultSets :
          \E r \in {run_sync(rs.fs, rs.policy, rs.cfg, rs.scope, write, faults)} :
              rs' = [rs EXCEPT
                        !.fs = r.fs,
                        !.runs = @ + 1,
                        !.last = Some([write |-> write, faults |-> faults,
                                       before |-> rs.fs, actions |-> r.actions,
                                       errors |-> r.errors])]
    /\ UNCHANGED <<mg, sy, ck, fm, pa, cv>>

NextRun == RunSync

SpecRun == InitRun /\ [][NextRun]_vars

(***************************************************************************)
(* Vocabulary of the claims about run_sync.                                *)
(***************************************************************************)
HasRun == IsSome(rs.last)

Last == Unwrap(rs.last)

\* C21 as claimed: a run without write leaves the tree as it found it (no
\* destination file, no directory and no checksum file is created or
\* changed) and every action reports wrote = false.
C21_NoSideEffects_AsClaimed ==
    (HasRun /\ ~Last.write) =>
        /\ rs.fs = Last.before
        /\ \A i \in 1..Len(Last.actions) : ~Last.actions[i].wrote

\* The rules of the policy that the run acts on, in policy order.
ActedRules ==
    IF IsSome(rs.policy)
    THEN SelectSeq(Unwrap(rs.policy),
                   LAMBDA r : r.id \notin rs.cfg.ignore /\ is_rule_enabled(r.when, rs.scope))
    ELSE <<>>

\* The rule is merged as JSON: a JSON format, a merge configured by the
\* client, and a template that parses.
MergesJson(rule) ==
    /\ IsSome(rule.format)
    /\ eq_ignore_ascii_case(Unwrap(rule.format), Str("json"))
    /\ rule.id \in DOMAIN rs.cfg.config
    /\ IsSome(rs.cfg.config[rule.id].merge)
    /\ rule.source.kind = "file"
    /\ IsSome(from_str(rule.source.text))

\* A write to p cannot succeed: it is one of the run's failing writes, or a
\* file stands where a directory on the way to p should be, or p is a
\* directory.
Fails(r, p) ==
    \/ p \in r.faults
    \/ \E q \in Prefixes(Parent(p)) : is_file(r.before, q)
    \/ is_dir(r.before, p)

ErrorCount(r, what, p) ==
    Cardinality({i \in 1..Len(r.errors) : r.errors[i] = RunError(what, p)})

\* A rule that copies one file whose text the target does not hold yet.
CopiesNewFile(r, rule, target) ==
    /\ ~MergesJson(rule)
    /\ rule.source.kind = "file"
    /\ read_to_string(r.before, target) # Some(rule.source.text)

\* C23: in a run with write, for every structured merge whose output differs
\* from the destination: a failing checksum write adds exactly one error
\* (and none otherwise), a failing destination write adds exactly one error
\* (and none otherwise); the destination is written whenever its own write
\* can succeed, also after a failed checksum write, and the checksum file is
\* written whenever its own write can succeed, also when the destination
\* write fails; wrote is true iff the destination write succeeded; and every
\* rule of the policy still has its action, a later copy being carried out.
C23_NonFatalPersistence ==
    (HasRun /\ Last.write) =>
        /\ Len(Last.actions) = Len(ActedRules)
        /\ \A i \in 1..Len(Last.actions) :
              LET a     == Last.actions[i]
                  rule  == ActedRules[i]
                  cpath == checksum_path(a.target)
              IN  (MergesJson(rule) /\ a.would_write) =>
                     /\ ErrorCount(Last, "checksum", cpath) = (IF Fails(Last, cpath) THEN 1 ELSE 0)
                     /\ ErrorCount(Last, "merged", a.target) = (IF Fails(Last, a.target) THEN 1 ELSE 0)
                     /\ a.wrote = ~Fails(Last, a.target)
                     /\ ~Fails(Last, a.target) =>
                           /\ is_file(rs.fs, a.target)
                           /\ rs.fs[a.target].text.fmt = "pretty"
                           /\ read_to_string(rs.fs, a.target) # read_to_string(Last.before, a.target)
                     /\ ~Fails(Last, cpath) =>
                           /\ is_file(rs.fs, cpath)
                           /\ "hash" \in DOMAIN rs.fs[cpath].text
                           /\ a.wrote => rs.fs[cpath].text = fingerprint(rs.fs[a.target].text)
                     /\ \A j \in (i + 1)..Len(Last.actions) :
                           /\ Last.actions[j].rule_id = ActedRules[j].id
                           /\ (CopiesNewFile(Last, ActedRules[j], Last.actions[j].target)
                               /\ ~Fails(Last, Last.actions[j].target))
                                 => /\ Last.actions[j].wrote
                                    /\ read_to_string(rs.fs, Last.actions[j].target)
                                          = Some(ActedRules[j].source.text)

\* C23 witness: in one run with write the checksum write of a merge failed
\* and its destination write did not; the merged text is in the
\* destination, the run reports the one error, and the rule after it copied
\* its file.
C23_Witness ==
    /\ HasRun /\ Last.write
    /\ Len(Last.actions) = 2
    /\ MergesJson(ActedRules[1])
    /\ Last.faults = {checksum_path(TargetA)}
    /\ Last.errors = <<RunError("checksum", checksum_path(TargetA))>>
    /\ Last.actions[1].wrote
    /\ ~is_file(rs.fs, checksum_path(TargetA))
    /\ rs.fs[TargetA].text.fmt = "pretty"
    /\ Last.actions[2].wrote
    /\ rs.fs[TargetB] = FileNode(TextA)

\* C24 as the specification states it: every rule whose source cannot be
\* read, and every rule whose write to its target fails, has an entry in the
\* errors of the run (about the target or a file under it), and the rules
\* after it still have their actions.  The
\* code returns (false, false) and no error for a template source that does
\* not exist, for a merge (apply_json_merge, read of the template) and for a
\* copy (copy_rule, a source neither file nor directory) alike.
C24_IOFailuresReported_AsClaimed ==
    HasRun =>
        /\ Len(Last.actions) = Len(ActedRules)
        /\ \A i \in 1..Len(Last.actions) :
              LET a    == Last.actions[i]
                  rule == ActedRules[i]
              IN  /\ a.rule_id = rule.id
                  /\ (Last.write /\ a.would_write /\ ~a.wrote)
                        => \E k \in 1..Len(Last.errors) : IsPrefixSeq(a.target, Last.errors[k].path)
                  /\ rule.source.kind = "absent"
                        => \E k \in 1..Len(Last.errors) : IsPrefixSeq(a.target, Last.errors[k].path)

\* `when` names the scope: it is empty, `*`, `any` or `all`, or one of its
\* pieces between commas and pipes is, blanks around it aside, the scope in
\* some letter case.
WhenNames(when, scope) ==
    LET seps     == {",", "|"}
        Lower(s) == [i \in 1..Len(s) |-> to_ascii_lowercase(s[i])]
        w        == Trim(when)
        IsPiece(i, j) ==
            /\ i = 1 \/ w[i - 1] \in seps
            /\ j = Len(w) \/ w[j + 1] \in seps
            /\ \A k \in i..j : w[k] \notin seps
    IN  \/ Lower(w) \in {Str(""), Str("*"), Str("any"), Str("all")}
        \/ \E i \in 1..Len(w) : \E j \in i..Len(w) :
              /\ IsPiece(i, j)
              /\ Trim(SubSeq(w, i, j)) # <<>>
              /\ Lower(Trim(SubSeq(w, i, j))) = Lower(scope)

\* The target of a rule: the client's override for its id, else the policy's.
TargetOf(rule) ==
    IF rule.id \in DOMAIN rs.cfg.config /\ IsSome(rs.cfg.config[rule.id].target)
    THEN Unwrap(rs.cfg.config[rule.id].target)
    ELSE rule.target

\* C25: the actions of a run are, in policy order, one for each rule whose id
\* is not ignored and whose `when` names the scope, each with the rule's id
\* and target; no file or directory appears at or under the target of any
\* other rule.
C25_ScopeFiltering ==
    (HasRun /\ IsSome(rs.policy)) =>
        LET policy == Unwrap(rs.policy)
            Acted(r) == r.id \notin rs.cfg.ignore /\ WhenNames(r.when, rs.scope)
            expected == SelectSeq(policy, Acted)
        IN  /\ Len(Last.actions) = Len(expected)
            /\ \A i \in 1..Len(expected) :
                  /\ Last.actions[i].rule_id = expected[i].id
                  /\ Last.actions[i].target = TargetOf(expected[i])
            /\ \A k \in 1..Len(policy) :
                  ~Acted(policy[k]) =>
                      \A p \in DOMAIN rs.fs \ DOMAIN Last.before :
                          ~IsPrefixSeq(TargetOf(policy[k]), p)

\* C25 witness: a run with write for scope "Lib" over a policy whose first
\* rule is for `repo|app` and whose second is for `lib,,`: the one action is
\* the second rule's, its target is written and the first rule's is not
\* there.
C25_Witness ==
    /\ HasRun /\ Last.write
    /\ rs.scope = Str("Lib")
    /\ IsSome(rs.policy)
    /\ Len(Unwrap(rs.policy)) = 2
    /\ Unwrap(rs.policy)[1].when = Str("repo|app")
    /\ Unwrap(rs.policy)[2].when = Str("lib,,")
    /\ Len(Last.actions) = 1
    /\ Last.actions[1].rule_id = "r1"
    /\ Last.actions[1].wrote
    /\ is_file(rs.fs, TargetA)
    /\ TargetB \notin DOMAIN rs.fs

\* The destination holds what the source holds: the file's text, or for a
\* directory every file under it.
RECURSIVE SameAsSource(_, _, _)
SameAsSource(fs, node, dst) ==
    CASE node.kind = "file" -> read_to_string(fs, dst) = Some(node.text)
      [] node.kind = "dir"  ->
            \A k \in 1..Len(node.entries) :
                SameAsSource(fs, node.entries[k][2], dst \o <<node.entries[k][1]>>)
      [] OTHER              -> FALSE

\* The text the structured merge of a rule produces over the tree.
MergedText(fs, rule, dst) ==
    LET dst_str == read_to_string(fs, dst)
        dst_json == IF IsSome(dst_str) /\ IsSome(from_str(Unwrap(dst_str)))
                    THEN Unwrap(from_str(Unwrap(dst_str)))
                    ELSE JNull
    IN  to_string_pretty(MergeJson(Unwrap(from_str(rule.source.text)), dst_json,
                                   Unwrap(rs.cfg.config[rule.id].merge)))

\* C27 as the specification states it: wrote implies would_write and a run
\* with write, and a rule whose source already equals its destination has
\* wrote = false and would_write = false, whatever the kind of the rule.  A
\* structured merge compares its own output, not the template, with the
\* destination: a destination equal to a template that is not in the
\* pretty-printed form is rewritten.
C27_SyncVerdict_AsClaimed ==
    HasRun =>
        \A i \in 1..Len(Last.actions) :
            LET a == Last.actions[i]
            IN  /\ a.wrote => a.would_write
                /\ a.wrote => Last.write
                /\ SameAsSource(Last.before, ActedRules[i].source, a.target)
                      => ~a.wrote /\ ~a.would_write

\* C27: wrote implies would_write and a run with write; a copy (of a file, of
\* a directory, or in place of a merge whose template does not parse) whose
\* source already equals its destination has wrote = false and would_write =
\* false, and so has a structured merge whose output already equals its
\* destination.
C27_SyncVerdict ==
    HasRun =>
        \A i \in 1..Len(Last.actions) :
            LET a    == Last.actions[i]
                rule == ActedRules[i]
            IN  /\ a.wrote => a.would_write
                /\ a.wrote => Last.write
                /\ IF MergesJson(rule)
                   THEN read_to_string(Last.before, a.target)
                            = Some(MergedText(Last.before, rule, a.target))
                        => ~a.wrote /\ ~a.would_write
                   ELSE SameAsSource(Last.before, rule.source, a.target)
                        => ~a.wrote /\ ~a.would_write

\* C27 witness: a second run with write over the tree the first one left:
\* the merge, whose output is in place, and the copy of a directory, whose
\* files are in place, both report wrote = false and would_write = false.
C27_Witness ==
    /\ HasRun /\ Last.write /\ rs.runs = 2
    /\ Len(Last.actions) = 2
    /\ MergesJson(ActedRules[1])
    /\ read_to_string(Last.before, TargetA)
          = Some(MergedText(Last.before, ActedRules[1], TargetA))
    /\ ActedRules[2].source.kind = "dir"
    /\ SameAsSource(Last.before, ActedRules[2].source, TargetB)
    /\ \A i \in 1..2 : ~Last.actions[i].wrote /\ ~Last.actions[i].would_write
    /\ rs.fs = Last.before

(***************************************************************************)
(* Checks (checks.rs).  A message is a sequence of atoms: literal text,    *)
(* placeholders, and the text of values; an Issue's path is a string.      *)
(***************************************************************************)
Lit(s) == [lit |-> s]

Ph(name) == [ph |-> name]

\* The text of a string, character by character.
Chars(s) == [i \in 1..Len(s) |-> Lit(s[i])]

\* str::replace of one placeholder by a text.
RECURSIVE Replace(_, _, _)
Replace(msg, ph, with) ==
    IF msg = <<>> THEN <<>>
    ELSE (IF Head(msg) = Ph(ph) THEN with ELSE <<Head(msg)>>)
         \o Replace(Tail(msg), ph, with)

\* f.trim_start_matches('$').trim_start_matches('.')
Norm(f) == TrimStartMatches(TrimStartMatches(f, "$"), ".")

\* format!("$.{}", norm)
DollarDot(norm) == <<"$", ".">> \o norm

UnwrapOr(o, d) == IF IsSome(o) THEN Unwrap(o) ELSE d

\* Value::to_string
ValText(v) == IF IsNull(v) THEN <<Lit("null")>> ELSE <<[json |-> v]>>

IntText(n) == <<[int |-> n]>>

Issue(sev, path, msg) ==
    [rule |-> "rule", severity |-> sev, path |-> path, message |-> msg]

Severity(chk) == UnwrapOr(chk.level, "error")

DefaultRequiredMessage ==
    <<Lit("Field '"), Ph("field"), Lit("' is required at "), Lit("$"), Lit("."), Ph("field")>>

DefaultTypeMessage ==
    <<Lit("Expected "), Ph("kind"), Lit(" at "), Lit("$"), Lit("."), Ph("path")>>

DefaultConstMessage == <<Lit("Field must equal expected value")>>

DefaultPatternMessage == <<Lit("Pattern mismatch")>>

DefaultEnumMessage == <<Lit("Value not in allowed set")>>

DefaultMinLengthMessage == <<Lit("String shorter than minimum")>>

DefaultMaxLengthMessage == <<Lit("String longer than maximum")>>

IsStr(v) == "str" \in DOMAIN v

IsNum(v) == "num" \in DOMAIN v

IsBool(v) == "bool" \in DOMAIN v

\* Value::as_i64: the number when it is held as an integer.
as_i64(v) == IF IsNum(v) /\ "tenths" \notin DOMAIN v THEN Some(v.num) ELSE None

is_type(v, kind) ==
    CASE kind = "string"  -> IsStr(v)
      [] kind = "number"  -> IsNum(v)
      [] kind = "integer" -> IsSome(as_i64(v))
      [] kind = "boolean" -> IsBool(v)
      [] kind = "array"   -> IsArr(v)
      [] kind = "object"  -> IsObj(v)
      [] kind = "null"    -> IsNull(v)
      [] OTHER            -> FALSE

json_kind(v) ==
    IF IsStr(v) THEN "string"
    ELSE IF IsBool(v) THEN "boolean"
    ELSE IF IsArr(v) THEN "array"
    ELSE IF IsObj(v) THEN "object"
    ELSE IF IsNull(v) THEN "null"
    ELSE IF IsSome(as_i64(v)) THEN "integer"
    ELSE IF IsNum(v) THEN "number"
    ELSE "unknown"

\* A field counts as missing also when it holds null.
RequiredFields_NullMissing(fields, chk, json) ==
    LET absent(f) == ~IsSome(get_json_path(json, f))
                     \/ IsNull(Unwrap(get_json_path(json, f)))
        hit == SelectSeq(fields, absent)
    IN  [i \in 1..Len(hit) |->
            Issue(Severity(chk), DollarDot(Norm(hit[i])), <<>>)]

\* Check::Required: one Issue per listed field that resolves to nothing.
RECURSIVE RequiredFields(_, _, _)
RequiredFields(fields, chk, json) ==
    IF fields = <<>> THEN <<>>
    ELSE LET f       == Head(fields)
             missing == ~IsSome(get_json_path(json, f))
             norm    == Norm(f)
             msg     == Replace(Replace(UnwrapOr(chk.message, DefaultRequiredMessage),
                                        "field", Chars(norm)),
                                "path", Chars(DollarDot(norm)))
         IN  (IF missing THEN <<Issue(Severity(chk), DollarDot(norm), msg)>> ELSE <<>>)
             \o RequiredFields(Tail(fields), chk, json)

\* Check::Type, the fields visited in the order given.
RECURSIVE TypeFields(_, _, _)
TypeFields(fields, chk, json) ==
    IF fields = <<>> THEN <<>>
    ELSE LET p    == Head(fields)[1]
             kind == Head(fields)[2]
             got  == get_json_path(json, p)
             norm == Norm(p)
             base == UnwrapOr(chk.message, DefaultTypeMessage)
         IN  (IF IsSome(got) /\ ~is_type(Unwrap(got), kind)
              THEN <<Issue(Severity(chk), DollarDot(norm),
                           Replace(Replace(Replace(base, "kind", <<Lit(kind)>>),
                                           "path", Chars(DollarDot(norm))),
                                   "actual", <<Lit(json_kind(Unwrap(got)))>>))>>
              ELSE <<>>)
             \o TypeFields(Tail(fields), chk, json)

\* The orders in which a HashMap's entries may be visited.
Orders(S) == {o \in [1..Cardinality(S) -> S] : Range(o) = S}

ConstIssues(chk, json) ==
    LET got  == get_json_path(json, chk.field)
        norm == Norm(chk.field)
        msg  == Replace(Replace(Replace(UnwrapOr(chk.message, DefaultConstMessage),
                                        "expected", ValText(chk.value)),
                                "actual",
                                IF IsSome(got) THEN ValText(Unwrap(got)) ELSE <<Lit("null")>>),
                        "path", Chars(DollarDot(norm)))
    IN  IF IsSome(got) /\ JsonEq(Unwrap(got), chk.value) THEN <<>>
        ELSE <<Issue(Severity(chk), DollarDot(norm), msg)>>

\* Regular expressions: the pattern texts of the model and what they match.
ValidPatterns == {"^a+$", "^$"}

\* Regex::new(&regex).unwrap_or_else(|_| Regex::new("^$").unwrap())
Compile(regex) == IF regex \in ValidPatterns THEN regex ELSE "^$"

is_match(re, str) ==
    CASE re = "^a+$" -> str # <<>> /\ \A i \in 1..Len(str) : str[i] = "a"
      [] re = "^$"   -> str = <<>>
      [] OTHER       -> FALSE

EmptyCache == <<>>

\* re_cache.entry(regex).or_insert_with(..)
CacheEntry(re_cache, regex) ==
    IF regex \in DOMAIN re_cache THEN re_cache
    ELSE [x \in DOMAIN re_cache \cup {regex} |->
             IF x = regex THEN Compile(regex) ELSE re_cache[x]]

PatternIssues(chk, json, re_cache) ==
    LET got  == get_json_path(json, chk.field)
        norm == Norm(chk.field)
    IN  IF IsSome(got) /\ IsStr(Unwrap(got))
           /\ ~is_match(CacheEntry(re_cache, chk.regex)[chk.regex], Unwrap(got).str)
        THEN <<Issue(Severity(chk), DollarDot(norm),
                     Replace(Replace(Replace(UnwrapOr(chk.message, DefaultPatternMessage),
                                             "pattern", <<Lit(chk.regex)>>),
                                     "actual", Chars(Unwrap(got).str)),
                             "path", Chars(DollarDot(norm))))>>
        ELSE <<>>

EnumIssues(chk, json) ==
    LET got  == get_json_path(json, chk.field)
        norm == Norm(chk.field)
    IN  IF IsSome(got)
           /\ ~\E i \in 1..Len(chk.values) : JsonEq(chk.values[i], Unwrap(got))
        THEN <<Issue(Severity(chk), DollarDot(norm),
                     Replace(Replace(Replace(UnwrapOr(chk.message, DefaultEnumMessage),
                                             "expected", <<[dbg |-> chk.values]>>),
                                     "actual", ValText(Unwrap(got))),
                             "path", Chars(DollarDot(norm))))>>
        ELSE <<>>

\* A length equal to the bound counts as out of bounds.
LengthIssues_Inclusive(chk, json, shorter) ==
    LET got   == get_json_path(json, chk.field)
        norm  == Norm(chk.field)
        bound == IF shorter THEN chk.min ELSE chk.max
    IN  IF IsSome(got) /\ IsStr(Unwrap(got))
           /\ (IF shorter THEN Len(Unwrap(got).str) <= bound
               ELSE Len(Unwrap(got).str) >= bound)
        THEN <<Issue(Severity(chk), DollarDot(norm), <<>>)>>
        ELSE <<>>

\* MinLength (shorter = TRUE) and MaxLength (shorter = FALSE).
LengthIssues(chk, json, shorter) ==
    LET got   == get_json_path(json, chk.field)
        norm  == Norm(chk.field)
        bound == IF shorter THEN chk.min ELSE chk.max
        base  == UnwrapOr(chk.message,
                          IF shorter THEN DefaultMinLengthMessage
                          ELSE DefaultMaxLengthMessage)
    IN  IF IsSome(got) /\ IsStr(Unwrap(got))
           /\ (IF shorter THEN Len(Unwrap(got).str) < bound
               ELSE Len(Unwrap(got).str) > bound)
        THEN <<Issue(Severity(chk), DollarDot(norm),
                     Replace(Replace(Replace(base, "expected", IntText(bound)),
                                     "actual", IntText(Len(Unwrap(got).str))),
                             "path", Chars(DollarDot(norm))))>>
        ELSE <<>>

\* The Issue lists one check can produce; a Type check visits its fields, a
\* hash map, in any order.
CheckIssues(chk, json, re_cache) ==
    CASE chk.kind = "required"  -> {RequiredFields(chk.fields, chk, json)}
      [] chk.kind = "type"      -> {TypeFields(o, chk, json) : o \in Orders(chk.fields)}
      [] chk.kind = "const"     -> {ConstIssues(chk, json)}
      [] chk.kind = "pattern"   -> {PatternIssues(chk, json, re_cache)}
      [] chk.kind = "enum"      -> {EnumIssues(chk, json)}
      [] chk.kind = "minLength" -> {LengthIssues(chk, json, TRUE)}
      [] chk.kind = "maxLength" -> {LengthIssues(chk, json, FALSE)}

CacheAfter(chk, json, re_cache) ==
    IF chk.kind = "pattern"
       /\ IsSome(get_json_path(json, chk.field))
       /\ IsStr(Unwrap(get_json_path(json, chk.field)))
    THEN CacheEntry(re_cache, chk.regex)
    ELSE re_cache

RECURSIVE RunChecksFrom(_, _, _)
RunChecksFrom(checks, json, re_cache) ==
    IF checks = <<>> THEN {<<>>}
    ELSE {a \o b : a \in CheckIssues(Head(checks), json, re_cache),
                   b \in RunChecksFrom(Tail(checks), json,
                                       CacheAfter(Head(checks), json, re_cache))}

\* The Issue lists a run can return.
run_checks(checks, json) == RunChecksFrom(checks, json, EmptyCache)

(***************************************************************************)
(* Runs of the checks of one rule over one document.                       *)
(***************************************************************************)
MaxFields == 2

MaxCheckRuns == 2

KA == <<"a">>

KC == <<"c">>

PA == <<"a">>

PDA == <<"$", ".", "a">>

PAB == <<"a", ".", "b">>

PC == <<"c">>

StrAA == JStr(<<"a", "a">>)

CheckDocs ==
    {EmptyObj, JArr(<<>>)}
    \cup {Doc1(KA, v) : v \in {JNull, JNum(1), StrAA, JStr(<<>>), Doc1(KB, JNull), Doc1(KB, JNum(1)),
                               JFloat(1, 0), JFloat(1, 5), JStr(<<"a">>),
                               JStr(<<"a", "a", "a">>)}}
    \cup {Doc2(KC, JNum(1), KA, StrAA)}

CustomMessage == <<Ph("field"), Lit(" missing at "), Ph("path")>>

PathMessage == <<Lit("at "), Ph("path")>>

RequiredCheck(fields, message, level) ==
    [kind |-> "required", fields |-> fields, message |-> message, level |-> level]

RequiredChecks ==
    {RequiredCheck(f, None, None) : f \in BSeq({PA, PDA, PAB, PC}, MaxFields)}
    \cup {RequiredCheck(<<PC, PA>>, Some(CustomMessage), Some("warning"))}

OtherChecks ==
    {[kind |-> "type", fields |-> {<<PA, "string">>}, message |-> None, level |-> None],
     [kind |-> "type", fields |-> {<<PA, "string">>, <<PAB, "string">>},
      message |-> None, level |-> None],
     [kind |-> "const", field |-> PA, value |-> JNum(1), message |-> None, level |-> None],
     [kind |-> "const", field |-> PC, value |-> JNull, message |-> None, level |-> None],
     [kind |-> "pattern", field |-> PA, regex |-> "^a+$", message |-> None, level |-> None],
     [kind |-> "pattern", field |-> PDA, regex |-> "(", message |-> None, level |-> None],
     [kind |-> "enum", field |-> PA, values |-> <<JNum(1), StrAA>>,
      message |-> None, level |-> None],
     [kind |-> "minLength", field |-> PA, min |-> 3, message |-> None, level |-> None],
     [kind |-> "maxLength", field |-> PA, max |-> 1, message |-> None, level |-> None],
     [kind |-> "type", fields |-> {<<PA, "integer">>}, message |-> None, level |-> None],
     [kind |-> "type", fields |-> {<<PDA, "number">>}, message |-> Some(PathMessage),
      level |-> None],
     [kind |-> "const", field |-> PDA, value |-> StrAA, message |-> Some(PathMessage),
      level |-> Some("warning")],
     [kind |-> "enum", field |-> PC, values |-> <<JNull>>, message |-> Some(PathMessage),
      level |-> None],
     [kind |-> "pattern", field |-> PA, regex |-> "^$", message |-> Some(PathMessage),
      level |-> None],
     [kind |-> "minLength", field |-> PDA, min |-> 2, message |-> Some(PathMessage),
      level |-> None],
     [kind |-> "maxLength", field |-> PDA, max |-> 2, message |-> Some(PathMessage),
      level |-> None]}

CheckLists ==
    {<<>>}
    \cup {<<c>> : c \in RequiredChecks \cup OtherChecks}
    \cup {<<c, d>> : c \in {RequiredCheck(<<PC>>, None, None), RequiredCheck(<<PAB, PC>>, None, None)},
                     d \in RequiredChecks \cup OtherChecks}
    \cup {<<d, c>> : c \in {RequiredCheck(<<PC, PDA>>, None, None)}, d \in OtherChecks}
    \cup {<<[kind |-> "pattern", field |-> PDA, regex |-> re, message |-> None, level |-> None],
             [kind |-> "pattern", field |-> PA, regex |-> re, message |-> None, level |-> None]>> :
             re \in {"(", "^a+$"}}

InitChecks ==
    /\ ck \in [pc : {"ready"}, checks : CheckLists, json : CheckDocs, out : {<<>>}]
    /\ mg = MgIdle /\ sy = SyIdle /\ fm = FmIdle /\ pa = PaIdle /\ rs = RsIdle /\ cv = CvIdle

\* One run of run_checks; its Issue list is appended to the runs seen.
RunChecks ==
    /\ ck.pc = "ready"
    /\ Len(ck.out) < MaxCheckRuns
    /\ \E issues \in run_checks(ck.checks, ck.json) :
          ck' = [ck EXCEPT !.out = Append(@, issues)]
    /\ UNCHANGED <<mg, sy, fm, pa, rs, cv>>

NextChecks == RunChecks

SpecChecks == InitChecks /\ [][NextChecks]_vars

(***************************************************************************)
(* Vocabulary of the claims about checks.                                  *)
(***************************************************************************)
IssuePaths(issues) == [i \in 1..Len(issues) |-> issues[i].path]

Absent(json, f) == get_json_path(json, f) = None

\* The listed fields of the Required rules, in rule order then field order.
RECURSIVE ListedFields(_)
ListedFields(checks) ==
    IF checks = <<>> THEN <<>>
    ELSE Head(checks).fields \o ListedFields(Tail(checks))

OnlyRequired(checks) == \A i \in 1..Len(checks) : checks[i].kind = "required"

\* C6: when the rules are Required rules, a run returns one Issue per listed
\* field that resolves to nothing, in the order listed, and none for a field
\* that resolves to a value, null included.
C6_RequiredCheck ==
    \A r \in 1..Len(ck.out) :
        OnlyRequired(ck.checks) =>
            LET listed == ListedFields(ck.checks)
                absent == SelectSeq(listed, LAMBDA f : Absent(ck.json, f))
            IN  /\ Len(ck.out[r]) = Len(absent)
                /\ \A i \in 1..Len(absent) :
                      ck.out[r][i].path = <<"$", ".">> \o Norm(absent[i])
                /\ \A f \in Range(listed) :
                      ~Absent(ck.json, f) =>
                          \A i \in 1..Len(ck.out[r]) :
                              ck.out[r][i].path # <<"$", ".">> \o Norm(f)

\* C6 witness: fields c then a, where a holds null and c is not there: one
\* Issue, for $.c.
C6_Witness ==
    /\ Len(ck.out) >= 1
    /\ ck.checks = <<RequiredCheck(<<PC, PA>>, None, None)>>
    /\ ck.json = Doc1(KA, JNull)
    /\ IssuePaths(ck.out[1]) = << <<"$", ".", "c">> >>

\* Runs of a single rule of one kind.
SingleCheck(kinds) == Len(ck.checks) = 1 /\ ck.checks[1].kind \in kinds

\* The value a field resolves to, null standing for a field that is not there.
ResolvedOrNull(json, f) ==
    IF Absent(json, f) THEN JNull ELSE Unwrap(get_json_path(json, f))

\* C11 as claimed: a Const rule produces an Issue exactly when the value its
\* field resolves to, null for a field that is not there, differs from the
\* expected value; so an expected null and a missing field give no Issue.
C11_ConstCheck_AsClaimed ==
    \A r \in 1..Len(ck.out) :
        SingleCheck({"const"}) =>
            (ck.out[r] # <<>>
                <=> ~JsonEq(ResolvedOrNull(ck.json, ck.checks[1].field),
                            ck.checks[1].value))

\* A number with zero fractional part, however it is held.
ZeroFraction(v) == IsNum(v) /\ ("tenths" \in DOMAIN v => v.tenths = 0)

\* The declared kinds as section 4.2 of the spec defines them.
HasKind(v, kind) ==
    CASE kind = "string"  -> IsStr(v)
      [] kind = "number"  -> IsNum(v)
      [] kind = "integer" -> ZeroFraction(v)
      [] kind = "boolean" -> IsBool(v)
      [] kind = "array"   -> IsArr(v)
      [] kind = "object"  -> IsObj(v)
      [] kind = "null"    -> IsNull(v)
      [] OTHER            -> FALSE

\* C12 as claimed: a TypeOf rule produces an Issue for a field exactly when
\* the field is there and its value has not the declared kind, every number
\* with zero fractional part being an integer.
C12_TypeOfCheck_AsClaimed ==
    \A r \in 1..Len(ck.out) :
        SingleCheck({"type"}) =>
            \A e \in ck.checks[1].fields :
                (<<"$", ".">> \o Norm(e[1]) \in Range(IssuePaths(ck.out[r])))
                    <=> (/\ ~Absent(ck.json, e[1])
                         /\ ~HasKind(Unwrap(get_json_path(ck.json, e[1])), e[2]))

\* C13: a TypeOf, Pattern, Enum, MinLength or MaxLength rule produces no Issue
\* for a field that is not there; Pattern, MinLength and MaxLength produce
\* none for a value that is not a string; MinLength produces an Issue exactly
\* for a string shorter than min and MaxLength exactly for one longer than
\* max, so a length equal to the bound gives none.
C13_SkipConditions ==
    \A r \in 1..Len(ck.out) :
        Len(ck.checks) = 1 =>
            LET c == ck.checks[1]
                v(f) == Unwrap(get_json_path(ck.json, f))
            IN  /\ c.kind = "type" =>
                      \A e \in c.fields :
                          Absent(ck.json, e[1]) =>
                              <<"$", ".">> \o Norm(e[1]) \notin Range(IssuePaths(ck.out[r]))
                /\ (c.kind \in {"pattern", "enum", "minLength", "maxLength"}
                    /\ Absent(ck.json, c.field)) => ck.out[r] = <<>>
                /\ (c.kind \in {"pattern", "minLength", "maxLength"}
                    /\ ~Absent(ck.json, c.field)
                    /\ ~IsStr(v(c.field))) => ck.out[r] = <<>>
                /\ (c.kind = "minLength" /\ ~Absent(ck.json, c.field) /\ IsStr(v(c.field)))
                      => (ck.out[r] # <<>> <=> Len(v(c.field).str) < c.min)
                /\ (c.kind = "maxLength" /\ ~Absent(ck.json, c.field) /\ IsStr(v(c.field)))
                      => (ck.out[r] # <<>> <=> Len(v(c.field).str) > c.max)

\* C13 witness: MinLength 2 over the string "aa", whose length equals the
\* bound, has run and produced no Issue.
C13_Witness ==
    /\ Len(ck.out) >= 1
    /\ SingleCheck({"minLength"})
    /\ ck.checks[1].min = 2
    /\ get_json_path(ck.json, ck.checks[1].field) = Some(StrAA)
    /\ ck.out[1] = <<>>

\* C14 as claimed: two runs over the same rules and document return the same
\* Issues in the same order, and the Issues of a Required rule come in the
\* order its fields are listed.
C14_IssueOrder_AsClaimed ==
    /\ \A r1, r2 \in 1..Len(ck.out) : ck.out[r1] = ck.out[r2]
    /\ \A r \in 1..Len(ck.out) :
          OnlyRequired(ck.checks) =>
              IssuePaths(ck.out[r]) =
                  [i \in 1..Len(SelectSeq(ListedFields(ck.checks),
                                          LAMBDA f : Absent(ck.json, f))) |->
                      <<"$", ".">> \o Norm(SelectSeq(ListedFields(ck.checks),
                                                    LAMBDA f : Absent(ck.json, f))[i])]

\* A path rendered as $.a.b: "$." once, then the first key.
NormalPath(path) ==
    /\ Len(path) >= 3
    /\ path[1] = "$" /\ path[2] = "."
    /\ path[3] \notin {"$", "."}

\* The message renders a path with "$." twice.
DoubledPrefix(msg) ==
    \E i \in 1..(Len(msg) - 3) :
        /\ msg[i] = Lit("$") /\ msg[i + 1] = Lit(".")
        /\ msg[i + 2] = Lit("$") /\ msg[i + 3] = Lit(".")

\* C15 as claimed: the path of every Issue is the field as $.a.b with one
\* leading "$.", and so is every path its message renders, whether the rule
\* wrote the field as a.b or as $.a.b and whether the message is the rule's
\* own or the built-in one.
C15_PathNormalization_AsClaimed ==
    \A r \in 1..Len(ck.out) :
        \A i \in 1..Len(ck.out[r]) :
            /\ NormalPath(ck.out[r][i].path)
            /\ ~DoubledPrefix(ck.out[r][i].message)

(***************************************************************************)
(* Formatter (spec section 4.3).  A text is a style and the lines between  *)
(* the document's braces: blank lines, top-level members on one line,      *)
(* members that open an object, the object's direct children, and the line *)
(* that closes it.  Style "canon" is the fixed pretty-printing convention; *)
(* any other style is a different spelling of the same lines.              *)
(***************************************************************************)
BlankLine == [t |-> "blank"]

KeyLine(k) == [t |-> "key", k |-> k]

OpenLine(k) == [t |-> "open", k |-> k]

ChildLine(k) == [t |-> "child", k |-> k]

CloseLine == [t |-> "close"]

Text(style, lines) == [style |-> style, lines |-> lines]

\* A member: its key, the blank lines before it in the text, and, for an
\* object, its direct children.
Member(k, blanks, obj, children) ==
    [k |-> k, blanks |-> blanks, obj |-> obj, children |-> children]

Child(k, blanks) == [k |-> k, blanks |-> blanks]

\* Reading the lines: done holds the members read, cur the object being read.
RECURSIVE ParseLines(_, _, _, _)
ParseLines(lines, blanks, done, cur) ==
    IF lines = <<>> THEN done
    ELSE LET l == Head(lines)
             rest == Tail(lines)
         IN  CASE l.t = "blank" -> ParseLines(rest, blanks + 1, done, cur)
               [] l.t = "key"   ->
                    ParseLines(rest, 0, Append(done, Member(l.k, blanks, FALSE, <<>>)), cur)
               [] l.t = "open"  ->
                    ParseLines(rest, 0, done, Some(Member(l.k, blanks, TRUE, <<>>)))
               [] l.t = "child" ->
                    ParseLines(rest, 0, done,
                               Some([Unwrap(cur) EXCEPT
                                        !.children = Append(@, Child(l.k, blanks))]))
               [] l.t = "close" -> ParseLines(rest, 0, Append(done, Unwrap(cur)), None)

Parse(text) == ParseLines(text.lines, 0, <<>>, None)

Blanks(n) == [i \in 1..n |-> BlankLine]

RECURSIVE RenderChildren(_)
RenderChildren(children) ==
    IF children = <<>> THEN <<>>
    ELSE Blanks(Head(children).blanks) \o <<ChildLine(Head(children).k)>>
         \o RenderChildren(Tail(children))

RECURSIVE RenderMembers(_)
RenderMembers(members) ==
    IF members = <<>> THEN <<>>
    ELSE LET e == Head(members)
         IN  Blanks(e.blanks)
             \o (IF e.obj
                 THEN <<OpenLine(e.k)>> \o RenderChildren(e.children) \o <<CloseLine>>
                 ELSE <<KeyLine(e.k)>>)
             \o RenderMembers(Tail(members))

Render(members) == Text("canon", RenderMembers(members))

\* The index of the first group that lists the key; unlisted keys get the
\* trailing rank.
Rank(groups, k) ==
    IF \E i \in 1..Len(groups) : k \in groups[i]
    THEN CHOOSE i \in 1..Len(groups) :
             k \in groups[i] /\ \A j \in 1..(i - 1) : k \notin groups[j]
    ELSE Len(groups) + 1

\* The members in text order, whatever the policy.
SortMembers_Unsorted(members, groups) == members

\* Stable sort by rank: rank by rank, the members of that rank in the order
\* of the text.
RECURSIVE SortFrom(_, _, _)
SortFrom(members, groups, r) ==
    IF r > Len(groups) + 1 THEN <<>>
    ELSE SelectSeq(members, LAMBDA e : Rank(groups, e.k) = r)
         \o SortFrom(members, groups, r + 1)

SortMembers(members, groups) == SortFrom(members, groups, 1)

HasEntry(map, k, v) == k \in DOMAIN map /\ map[k] = v

\* No group rule at all.
GroupRule_Off(sorted, i, groups, lb) == 0

\* Rule 1: one blank line at a group transition, never before the first key.
GroupRule(sorted, i, groups, lb) ==
    IF lb.between_groups /\ i > 1
       /\ Rank(groups, sorted[i].k) # Rank(groups, sorted[i - 1].k)
    THEN 1 ELSE 0

\* "keep" adds the text's own blank lines to the group rule's.
BeforeBlanks_KeepAdds(sorted, i, groups, lb) ==
    IF HasEntry(lb.before_fields, sorted[i].k, "none") THEN 0
    ELSE IF HasEntry(lb.before_fields, sorted[i].k, "keep")
    THEN sorted[i].blanks + GroupRule(sorted, i, groups, lb)
    ELSE GroupRule(sorted, i, groups, lb)

\* before_fields without the "none" entries.
BeforeBlanks_NoneIgnored(sorted, i, groups, lb) ==
    IF HasEntry(lb.before_fields, sorted[i].k, "keep") /\ sorted[i].blanks > 0
    THEN sorted[i].blanks
    ELSE GroupRule(sorted, i, groups, lb)

\* Rule 2: "none" gives no blank line; "keep" gives the text's own blank
\* lines, and the group rule when the text has none; else rule 1.
BeforeBlanks(sorted, i, groups, lb) ==
    IF HasEntry(lb.before_fields, sorted[i].k, "none") THEN 0
    ELSE IF HasEntry(lb.before_fields, sorted[i].k, "keep") /\ sorted[i].blanks > 0
    THEN sorted[i].blanks
    ELSE GroupRule(sorted, i, groups, lb)

\* in_fields ignored: the children's blank lines always stay.
InFieldChildren_AlwaysKept(e, lb) == e.children

\* Rule 3: "keep" leaves the children's blank lines, anything else strips
\* them.
InFieldChildren(e, lb) ==
    IF HasEntry(lb.in_fields, e.k, "keep") THEN e.children
    ELSE [i \in 1..Len(e.children) |-> Child(e.children[i].k, 0)]

StrictLinebreaks(sorted, groups, lb) ==
    [i \in 1..Len(sorted) |->
        Member(sorted[i].k, BeforeBlanks(sorted, i, groups, lb), sorted[i].obj,
               InFieldChildren(sorted[i], lb))]

\* format(document, order policy, linebreak policy, strict)
Format(text, groups, lb, strict) ==
    LET sorted   == SortMembers(Parse(text), groups)
        rendered == Render(IF strict THEN StrictLinebreaks(sorted, groups, lb) ELSE sorted)
    IN  [changed |-> rendered # text, rendered_text |-> rendered]

(***************************************************************************)
(* Blank-line settings: rigra.toml (config.rs) over the policy file over   *)
(* the built-in default.                                                   *)
(***************************************************************************)
EmptyMap == <<>>

LineBreakCfg(between_groups, before_fields, in_fields) ==
    [between_groups |-> between_groups, before_fields |-> before_fields,
     in_fields |-> in_fields]

FormatCfg(strict_linebreak, linebreak) ==
    [strict_linebreak |-> strict_linebreak, linebreak |-> linebreak]

RigletConfig(format) == [format |-> format]

\* cfg.format.as_ref().and_then(|f| f.linebreak.as_ref()?. ..)
CfgLinebreak(cfg) ==
    IF IsSome(cfg.format) THEN Unwrap(cfg.format).linebreak ELSE None

\* rigra.toml ignored.
resolve_effective_Defaults(cfg) ==
    [strict_linebreak |-> TRUE, lb_between_groups |-> None,
     lb_before_fields |-> EmptyMap, lb_in_fields |-> EmptyMap]

\* The formatter's part of resolve_effective.
resolve_effective(cfg) ==
    LET lb == CfgLinebreak(cfg)
    IN  [strict_linebreak |->
            IF IsSome(cfg.format) /\ IsSome(Unwrap(cfg.format).strict_linebreak)
            THEN Unwrap(Unwrap(cfg.format).strict_linebreak) ELSE TRUE,
         lb_between_groups |->
            IF IsSome(lb) THEN Unwrap(lb).between_groups ELSE None,
         lb_before_fields |->
            IF IsSome(lb) /\ IsSome(Unwrap(lb).before_fields)
            THEN Unwrap(Unwrap(lb).before_fields) ELSE EmptyMap,
         lb_in_fields |->
            IF IsSome(lb) /\ IsSome(Unwrap(lb).in_fields)
            THEN Unwrap(Unwrap(lb).in_fields) ELSE EmptyMap]

\* Override, else policy, else the default, flag by flag and field by field.
ResolveLinebreak(eff, pol) ==
    [between_groups |->
        IF IsSome(eff.lb_between_groups) THEN Unwrap(eff.lb_between_groups)
        ELSE IF IsSome(pol.between_groups) THEN Unwrap(pol.between_groups)
        ELSE FALSE,
     before_fields |-> eff.lb_before_fields @@ pol.before_fields,
     in_fields |-> eff.lb_in_fields @@ pol.in_fields]

(***************************************************************************)
(* Passes of the formatter over one file.                                  *)
(***************************************************************************)
MaxBlank == 1

G0 == <<>>

G2 == <<{"name"}, {"license"}>>

G3 == <<{"name"}, {"license"}, {"scripts", "deps"}>>

KeySets == {{"name", "license", "scripts"}, {"license", "scripts", "deps"}}

\* The orders in which the keys of a document can stand.
KeyOrders ==
    UNION {UNION {Orders(S) : S \in SUBSET K} : K \in KeySets}

\* scripts holds build and test; the other members stand on one line.
MembersOf(order, blanks, testBlanks) ==
    [i \in 1..Len(order) |->
        IF order[i] = "scripts"
        THEN Member("scripts", blanks[i], TRUE,
                    <<Child("build", 0), Child("test", testBlanks)>>)
        ELSE Member(order[i], blanks[i], FALSE, <<>>)]

CanonTexts ==
    UNION {{Render(MembersOf(o, b, t)) :
                b \in [1..Len(o) -> 0..MaxBlank],
                t \in (IF "scripts" \in Range(o) THEN 0..MaxBlank ELSE {0})}
           : o \in KeyOrders}

WideTexts ==
    {Text("wide", RenderMembers(MembersOf(o, [i \in 1..Len(o) |-> 0], 0))) : o \in KeyOrders}

NoCfg == RigletConfig(None)

NonStrictCfg == RigletConfig(Some(FormatCfg(Some(FALSE), None)))

FieldSettings ==
    {<<EmptyMap, EmptyMap>>,
     <<"license" :> "none", "scripts" :> "keep">>,
     <<"license" :> "keep", "scripts" :> "none">>,
     <<"scripts" :> "keep", EmptyMap>>,
     <<"license" :> "none" @@ "scripts" :> "none", EmptyMap>>,
     <<"deps" :> "keep", "scripts" :> "keep">>}

Policies ==
    {LineBreakCfg(bg, fs[1], fs[2]) : bg \in {None, Some(TRUE)}, fs \in FieldSettings}

FormatRuns(texts, cfgs, groups, pols, writes) ==
    [pc : {"ready"}, text : texts, cfg : cfgs, groups : groups, pol : pols,
     write : writes, passes : {<<>>}]

InitFormat ==
    /\ fm \in FormatRuns(CanonTexts, {NoCfg}, {G0, G2, G3}, Policies, {TRUE})
           \cup FormatRuns(CanonTexts, {NonStrictCfg}, {G0, G2, G3},
                           {LineBreakCfg(Some(TRUE), EmptyMap, "scripts" :> "none")}, {TRUE})
           \cup FormatRuns(WideTexts, {NoCfg, NonStrictCfg}, {G2, G3}, Policies, {TRUE, FALSE})
    /\ mg = MgIdle /\ sy = SyIdle /\ ck = CkIdle /\ pa = PaIdle /\ rs = RsIdle /\ cv = CvIdle

\* One pass of the formatter; with write the file takes the rendered text.
RunFormat ==
    /\ fm.pc = "ready"
    /\ Len(fm.passes) < MaxRuns
    /\ LET eff == resolve_effective(fm.cfg)
           lb  == ResolveLinebreak(eff, fm.pol)
           r   == Format(fm.text, fm.groups, lb, eff.strict_linebreak)
       IN  fm' = [fm EXCEPT
                     !.text = IF fm.write THEN r.rendered_text ELSE @,
                     !.passes = Append(@, [input |-> fm.text,
                                           strict |-> eff.strict_linebreak,
                                           lb |-> lb,
                                           changed |-> r.changed,
                                           output |-> r.rendered_text])]
    /\ UNCHANGED <<mg, sy, ck, pa, rs, cv>>

NextFormat == RunFormat

SpecFormat == InitFormat /\ [][NextFormat]_vars

\* The settings of rigra.toml and of the policy file, each given or not.
OverrideCfgs ==
    {NoCfg, RigletConfig(Some(FormatCfg(None, None)))}
    \cup {RigletConfig(Some(FormatCfg(None, Some(LineBreakCfg(bg, bf, inf))))) :
            bg \in {None, Some(TRUE), Some(FALSE)},
            bf \in {None, Some(EmptyMap), Some("license" :> "keep"), Some("license" :> "none")},
            inf \in {None, Some("scripts" :> "keep"), Some("scripts" :> "none")}}

LinebreakPolicies ==
    {LineBreakCfg(bg, bf, inf) :
        bg \in {None, Some(TRUE), Some(FALSE)},
        bf \in {EmptyMap, "license" :> "none", "license" :> "keep" @@ "scripts" :> "none"},
        inf \in {EmptyMap, "scripts" :> "keep"}}

LinebreakTexts ==
    {Render(MembersOf(<<"license", "name", "scripts">>, b, t)) :
        b \in {<<0, 0, 0>>, <<0, 1, 1>>}, t \in 0..MaxBlank}

InitLinebreak ==
    /\ fm \in FormatRuns(LinebreakTexts, OverrideCfgs, {G3}, LinebreakPolicies, {TRUE})
    /\ mg = MgIdle /\ sy = SyIdle /\ ck = CkIdle /\ pa = PaIdle /\ rs = RsIdle /\ cv = CvIdle

SpecLinebreak == InitLinebreak /\ [][NextFormat]_vars

(***************************************************************************)
(* The format command (main.rs): the flags of the command line over those  *)
(* of rigra.toml, the effective write flag, one run of the formatter over  *)
(* one file, and the exit code.                                            *)
(***************************************************************************)
\* The [format] table of rigra.toml with its write, diff and check keys.
FormatFlags(write, diff, check) ==
    [strict_linebreak |-> None, linebreak |-> None, write |-> write, diff |-> diff,
     check |-> check]

\* if write { Some(true) } else { None }
CliFlag(given) == IF given THEN Some(TRUE) ELSE None

\* cli.or_else(|| cfg.format.as_ref().and_then(|f| f.<flag>)).unwrap_or(false)
FlagOr(cli, cfg, flag) ==
    IF IsSome(cli) THEN Unwrap(cli)
    ELSE IF IsSome(cfg.format) /\ IsSome(Unwrap(cfg.format)[flag])
    THEN Unwrap(Unwrap(cfg.format)[flag])
    ELSE FALSE

\* The write, diff and check of resolve_effective.
resolve_flags(cli_write, cli_diff, cli_check, cfg) ==
    [write |-> FlagOr(cli_write, cfg, "write"),
     diff  |-> FlagOr(cli_diff, cfg, "diff"),
     check |-> FlagOr(cli_check, cfg, "check")]

\* write is taken as resolved.
eff_write_Unforced(eff) == eff.write

\* If diff or check is enabled, write is forced to false for this run.
eff_write(eff) == IF eff.diff \/ eff.check THEN FALSE ELSE eff.write

FormatResult(changed, original, preview) ==
    [changed |-> changed, original |-> original, preview |-> preview]

\* run_format over one file: with write the file takes the canonical text
\* and no preview is returned; without, the file stays and the canonical
\* text is the preview, with the original text when capture_old is set.
run_format(text, groups, lb, strict, write, capture_old) ==
    LET r == Format(text, groups, lb, strict)
    IN  [file   |-> IF write THEN r.rendered_text ELSE text,
         result |-> FormatResult(r.changed,
                                 IF capture_old THEN Some(text) ELSE None,
                                 IF write THEN None ELSE Some(r.rendered_text))]

FlagCfgs ==
    {NoCfg, RigletConfig(Some(FormatFlags(None, None, None))),
     RigletConfig(Some(FormatFlags(Some(TRUE), None, None))),
     RigletConfig(Some(FormatFlags(Some(TRUE), Some(TRUE), Some(FALSE)))),
     RigletConfig(Some(FormatFlags(Some(TRUE), Some(FALSE), Some(TRUE)))),
     RigletConfig(Some(FormatFlags(Some(FALSE), None, Some(TRUE))))}

CommandTexts ==
    LinebreakTexts
    \cup {Text("wide", RenderMembers(MembersOf(<<"scripts", "name">>, <<0, 0>>, 0)))}

InitCommand ==
    /\ fm \in [pc : {"cli"}, file : CommandTexts, cfg : FlagCfgs, groups : {G3},
               pol : {LineBreakCfg(Some(TRUE), EmptyMap, EmptyMap)}, runs : {0},
               last : {None}]
    /\ mg = MgIdle /\ sy = SyIdle /\ ck = CkIdle /\ pa = PaIdle /\ rs = RsIdle
    /\ cv = CvIdle

\* The Format arm of main for one invocation: the flags given on the command
\* line, the file as the run leaves it, the result and the exit code.
FormatCommand ==
    /\ fm.pc = "cli"
    /\ fm.runs < MaxRuns
    /\ \E write \in BOOLEAN, diff \in BOOLEAN, check \in BOOLEAN :
          LET flags == resolve_flags(CliFlag(write), CliFlag(diff), CliFlag(check), fm.cfg)
              eff   == resolve_effective(fm.cfg)
              out   == run_format(fm.file, fm.groups, ResolveLinebreak(eff, fm.pol),
                                  eff.strict_linebreak, eff_write(flags),
                                  flags.diff \/ flags.check)
          IN  fm' = [fm EXCEPT
                        !.file = out.file,
                        !.runs = @ + 1,
                        !.last = Some([cli |-> [write |-> write, diff |-> diff,
                                                check |-> check],
                                       before |-> fm.file,
                                       eff |-> flags,
                                       eff_write |-> eff_write(flags),
                                       result |-> out.result,
                                       exit |-> IF flags.check /\ out.result.changed
                                                THEN 1 ELSE 0])]
    /\ UNCHANGED <<mg, sy, ck, pa, rs, cv>>

NextCommand == FormatCommand

SpecCommand == InitCommand /\ [][NextCommand]_vars

(***************************************************************************)
(* Vocabulary of the claims about the formatter, read off the texts.       *)
(***************************************************************************)
IsTopLine(l) == l.t \in {"key", "open"}

\* The indices of the top-level member lines, in text order.
TopLines(lines) == SelectSeq([i \in 1..Len(lines) |-> i], LAMBDA i : IsTopLine(lines[i]))

TopKeys(lines) == [n \in 1..Len(TopLines(lines)) |-> lines[TopLines(lines)[n]].k]

RECURSIVE BlanksBeforeLine(_, _)
BlanksBeforeLine(lines, j) ==
    IF j > 1 /\ lines[j - 1].t = "blank" THEN 1 + BlanksBeforeLine(lines, j - 1) ELSE 0

PositionOf(seq, k) == CHOOSE i \in 1..Len(seq) : seq[i] = k

LineOf(lines, l) == CHOOSE j \in 1..Len(lines) : lines[j] = l

HasLine(lines, l) == \E j \in 1..Len(lines) : lines[j] = l

\* The n-th top-level key of the text starts a group: it has a predecessor
\* and that predecessor is of another rank.
StartsGroup(lines, n, groups) ==
    /\ n > 1
    /\ Rank(groups, TopKeys(lines)[n]) # Rank(groups, TopKeys(lines)[n - 1])

Passes == 1..Len(fm.passes)

\* C1: a pass over the previous pass's output reports changed = false and
\* renders that same text.
C1_Idempotence ==
    \A p \in Passes :
        (p > 1 /\ fm.passes[p].input = fm.passes[p - 1].output)
            => /\ ~fm.passes[p].changed
               /\ fm.passes[p].output = fm.passes[p - 1].output

\* C1 witness: a first pass that changed the text and wrote it, and a
\* second pass over it that changed nothing.
C1_Witness ==
    /\ Len(fm.passes) >= 2
    /\ fm.write
    /\ fm.passes[1].changed
    /\ fm.passes[1].input.style = "canon"
    /\ TopKeys(fm.passes[1].input.lines) # TopKeys(fm.passes[1].output.lines)
    /\ fm.passes[2].input = fm.passes[1].output
    /\ ~fm.passes[2].changed

C8_NoneBeatsGroupRule ==
    \A p \in Passes :
        fm.passes[p].strict =>
            LET out == fm.passes[p].output.lines
                lb  == fm.passes[p].lb
            IN  \A n \in 1..Len(TopLines(out)) :
                    /\ HasEntry(lb.before_fields, TopKeys(out)[n], "none")
                          => BlanksBeforeLine(out, TopLines(out)[n]) = 0
                    /\ TopKeys(out)[n] \notin DOMAIN lb.before_fields
                          => BlanksBeforeLine(out, TopLines(out)[n]) =
                                (IF lb.between_groups /\ StartsGroup(out, n, fm.groups)
                                 THEN 1 ELSE 0)

\* C8 witness: license is set to "none" and starts the second group under
\* between_groups; the text had a blank line before it, the output has
\* none, and scripts, starting the third group, gets its blank line.
C8_Witness ==
    /\ Len(fm.passes) >= 1
    /\ fm.passes[1].strict /\ fm.passes[1].lb.between_groups
    /\ fm.groups = G3
    /\ HasEntry(fm.passes[1].lb.before_fields, "license", "none")
    /\ "scripts" \notin DOMAIN fm.passes[1].lb.before_fields
    /\ TopKeys(fm.passes[1].input.lines) = <<"name", "license", "scripts">>
    /\ BlanksBeforeLine(fm.passes[1].input.lines,
                        LineOf(fm.passes[1].input.lines, KeyLine("license"))) = 1
    /\ TopKeys(fm.passes[1].output.lines) = <<"name", "license", "scripts">>
    /\ BlanksBeforeLine(fm.passes[1].output.lines,
                        LineOf(fm.passes[1].output.lines, KeyLine("license"))) = 0
    /\ BlanksBeforeLine(fm.passes[1].output.lines,
                        LineOf(fm.passes[1].output.lines, OpenLine("scripts"))) = 1

\* The settings of rigra.toml as they stand in the file.
OverrideOf(cfg) ==
    IF IsSome(cfg.format) /\ IsSome(Unwrap(cfg.format).linebreak)
    THEN Unwrap(Unwrap(cfg.format).linebreak)
    ELSE LineBreakCfg(None, None, None)

EntryOf(map, f) == IF f \in DOMAIN map THEN Some(map[f]) ELSE None

OptEntryOf(optmap, f) == IF IsSome(optmap) THEN EntryOf(Unwrap(optmap), f) ELSE None

FirstGiven(a, b) == IF IsSome(a) THEN a ELSE b

FieldNames == {"name", "license", "scripts", "deps"}

\* C9: the pass works with, for between_groups and for each field of
\* before_fields and in_fields on its own, the value of rigra.toml if given,
\* else the policy file's if given, else the default: between_groups off and
\* no setting for the field.
C9_ResolutionOrder ==
    \A p \in Passes :
        LET lb   == fm.passes[p].lb
            over == OverrideOf(fm.cfg)
        IN  /\ Some(lb.between_groups) =
                  FirstGiven(over.between_groups,
                             FirstGiven(fm.pol.between_groups, Some(FALSE)))
            /\ \A f \in FieldNames :
                  /\ EntryOf(lb.before_fields, f) =
                        FirstGiven(OptEntryOf(over.before_fields, f),
                                   EntryOf(fm.pol.before_fields, f))
                  /\ EntryOf(lb.in_fields, f) =
                        FirstGiven(OptEntryOf(over.in_fields, f),
                                   EntryOf(fm.pol.in_fields, f))

\* C9 witness: the policy file says between_groups = false, license "none"
\* and in scripts "keep"; rigra.toml says between_groups = true and license
\* "keep" and nothing on scripts.  The pass puts a blank line before license
\* and before scripts, where the text had none, and keeps the blank line
\* inside scripts.
C9_Witness ==
    /\ Len(fm.passes) >= 1
    /\ fm.pol = LineBreakCfg(Some(FALSE), "license" :> "none", "scripts" :> "keep")
    /\ OverrideOf(fm.cfg) = LineBreakCfg(Some(TRUE), Some("license" :> "keep"), None)
    /\ fm.passes[1].input.lines =
          <<KeyLine("license"), KeyLine("name"),
            OpenLine("scripts"), ChildLine("build"), BlankLine, ChildLine("test"), CloseLine>>
    /\ fm.passes[1].output.lines =
          <<KeyLine("name"), BlankLine, KeyLine("license"), BlankLine,
            OpenLine("scripts"), ChildLine("build"), BlankLine, ChildLine("test"), CloseLine>>

BlanksBeforeChild(text, c) == BlanksBeforeLine(text.lines, LineOf(text.lines, ChildLine(c)))

ObjectKeys(text) == {text.lines[j].k : j \in {i \in 1..Len(text.lines) : text.lines[i].t = "open"}}

ChildNames == {"build", "test"}

\* C10 as claimed: with in_fields[f] = "keep" the children of f have in the
\* output the blank lines they had in the text; with "none" they have none.
C10_InFields_AsClaimed ==
    \A p \in Passes :
        \A f \in ObjectKeys(fm.passes[p].input) :
            \A c \in ChildNames :
                /\ HasEntry(fm.passes[p].lb.in_fields, f, "keep")
                      => BlanksBeforeChild(fm.passes[p].output, c)
                            = BlanksBeforeChild(fm.passes[p].input, c)
                /\ HasEntry(fm.passes[p].lb.in_fields, f, "none")
                      => BlanksBeforeChild(fm.passes[p].output, c) = 0

\* C10 amended: with in_fields[f] = "keep" the children of f have in the
\* output the blank lines they had in the text, wherever f moves; with
\* "none", in strict mode, they have none.
C10_InFields ==
    \A p \in Passes :
        \A f \in ObjectKeys(fm.passes[p].input) :
            \A c \in ChildNames :
                /\ HasEntry(fm.passes[p].lb.in_fields, f, "keep")
                      => BlanksBeforeChild(fm.passes[p].output, c)
                            = BlanksBeforeChild(fm.passes[p].input, c)
                /\ (fm.passes[p].strict /\ HasEntry(fm.passes[p].lb.in_fields, f, "none"))
                      => BlanksBeforeChild(fm.passes[p].output, c) = 0

\* C10 witness: in strict mode scripts moves behind license and keeps the
\* blank line before its child test.
C10_Witness ==
    /\ Len(fm.passes) >= 1
    /\ fm.passes[1].strict
    /\ HasEntry(fm.passes[1].lb.in_fields, "scripts", "keep")
    /\ TopKeys(fm.passes[1].input.lines) = <<"scripts", "license">>
    /\ TopKeys(fm.passes[1].output.lines) = <<"license", "scripts">>
    /\ BlanksBeforeChild(fm.passes[1].input, "test") = 1
    /\ BlanksBeforeChild(fm.passes[1].output, "test") = 1

(***************************************************************************)
(* Vocabulary of the claim about the format command.                       *)
(***************************************************************************)
Ran == fm.pc = "cli" /\ IsSome(fm.last)

LastCommand == Unwrap(fm.last)

\* What the formatter makes of the file the last run found.
Canonical ==
    LET eff == resolve_effective(fm.cfg)
    IN  Format(LastCommand.before, fm.groups, ResolveLinebreak(eff, fm.pol),
               eff.strict_linebreak).rendered_text

\* C22: the file is overwritten only by a run whose effective write flag is
\* true; the effective flag is false whenever diff or check is enabled (on
\* the command line or in rigra.toml) and is the resolved write otherwise;
\* a run whose effective flag is false leaves the file byte-identical and
\* still reports changed and the canonical text as preview; a run whose
\* effective flag is true leaves the canonical text in the file and returns
\* no preview.
C22_FormatWriteGating ==
    Ran =>
        LET r == LastCommand
        IN  /\ fm.file # r.before => r.eff_write
            /\ (r.eff.diff \/ r.eff.check) => ~r.eff_write
            /\ ~(r.eff.diff \/ r.eff.check) => r.eff_write = r.eff.write
            /\ (r.cli.diff \/ r.cli.check) => ~r.eff_write
            /\ ~r.eff_write =>
                  /\ fm.file = r.before
                  /\ r.result.changed = (Canonical # r.before)
                  /\ r.result.preview = Some(Canonical)
            /\ r.eff_write =>
                  /\ fm.file = Canonical
                  /\ r.result.preview = None

\* C22 witness: --write together with --check over a file that is not
\* canonical: the file is left as it was, changed and a preview are reported.
C22_Witness ==
    /\ Ran
    /\ LastCommand.cli.write /\ LastCommand.cli.check
    /\ LastCommand.result.changed
    /\ IsSome(LastCommand.result.preview)
    /\ fm.file = LastCommand.before
    /\ fm.file # Canonical


(***************************************************************************)
(* Patterns that do not compile, and the cache of compiled patterns.       *)
(***************************************************************************)
\* The Issue lists of a run that compiles the pattern of every rule anew.
RECURSIVE RunChecksUncached(_, _)
RunChecksUncached(checks, json) ==
    IF checks = <<>> THEN {<<>>}
    ELSE {a \o b : a \in CheckIssues(Head(checks), json, EmptyCache),
                   b \in RunChecksUncached(Tail(checks), json)}

\* C26 as the specification states it: a run always returns; a Pattern rule
\* whose pattern does not compile produces an Issue for every string its
\* field holds, the empty string included; and a run returns what a run
\* compiling every rule's pattern anew returns.  The code compiles `^$` in
\* place of a pattern that does not compile, and `^$` matches the empty
\* string.
C26_InvalidPattern_AsClaimed ==
    \A r \in 1..Len(ck.out) :
        /\ ck.out[r] \in RunChecksUncached(ck.checks, ck.json)
        /\ \A i \in 1..Len(ck.checks) :
              LET chk == ck.checks[i]
                  got == get_json_path(ck.json, chk.field)
              IN  (/\ chk.kind = "pattern"
                   /\ chk.regex \notin ValidPatterns
                   /\ IsSome(got)
                   /\ IsStr(Unwrap(got)))
                  => \E k \in 1..Len(ck.out[r]) :
                        /\ ck.out[r][k].path = <<"$", ".">> \o Norm(chk.field)
                        /\ ck.out[r][k].message = DefaultPatternMessage


(***************************************************************************)
(* The convention cache (conv.rs).  Names, versions and sources are        *)
(* sequences of characters; the cache is the set of directories under      *)
(* .rigra/conv, each with the files extracted into it.                     *)
(***************************************************************************)
strip_prefix(s, pre) ==
    IF Len(pre) <= Len(s) /\ SubSeq(s, 1, Len(pre)) = pre
    THEN Some(SubSeq(s, Len(pre) + 1, Len(s)))
    ELSE None

\* str::split_once: the text before and after the first c.
split_once(s, c) ==
    IF \E i \in 1..Len(s) : s[i] = c
    THEN LET i == CHOOSE x \in 1..Len(s) : s[x] = c /\ \A y \in 1..(x - 1) : s[y] # c
         IN  Some(<<SubSeq(s, 1, i - 1), SubSeq(s, i + 1, Len(s))>>)
    ELSE None

\* str::rsplit_once: the text before and after the last c.
rsplit_once(s, c) ==
    IF \E i \in 1..Len(s) : s[i] = c
    THEN LET i == CHOOSE x \in 1..Len(s) : s[x] = c /\ \A y \in (x + 1)..Len(s) : s[y] # c
         IN  Some(<<SubSeq(s, 1, i - 1), SubSeq(s, i + 1, Len(s))>>)
    ELSE None

\* name.replace('/', "__")
RECURSIVE ReplaceSlash(_)
ReplaceSlash(s) ==
    IF s = <<>> THEN <<>>
    ELSE (IF Head(s) = "/" THEN <<"_", "_">> ELSE <<Head(s)>>) \o ReplaceSlash(Tail(s))

cache_key(name, ver) == ReplaceSlash(name) \o <<"@">> \o ver

cache_root == <<Str(".rigra"), Str("conv")>>

SourceGh(owner, repo, tag) == [kind |-> "gh", owner |-> owner, repo |-> repo, tag |-> tag]

SourceFile(path) == [kind |-> "file", path |-> path]

parse_source(s) ==
    IF IsSome(strip_prefix(s, Str("gh:")))
    THEN LET rest == Unwrap(strip_prefix(s, Str("gh:")))
             at   == split_once(rest, "@")
         IN  IF ~IsSome(at) THEN None
             ELSE LET sl == split_once(Unwrap(at)[1], "/")
                  IN  IF ~IsSome(sl) THEN None
                      ELSE Some(SourceGh(Unwrap(sl)[1], Unwrap(sl)[2], Unwrap(at)[2]))
    ELSE IF IsSome(strip_prefix(s, Str("file:")))
    THEN Some(SourceFile(Unwrap(strip_prefix(s, Str("file:")))))
    ELSE None

OkPath(p) == [ok |-> TRUE, path |-> p]

ErrText(e) == [ok |-> FALSE, err |-> e]

\* What an install returns and leaves behind: the cache directories and the
\* downloads under .rigra/tmp.
Installed(result, cache, tmp) == [result |-> result, cache |-> cache, tmp |-> tmp]

MakeDir(cache, d) == [x \in DOMAIN cache \cup {d} |-> IF x = d THEN {} ELSE cache[x]]

Extract(cache, d, files) ==
    [x \in DOMAIN cache |-> IF x = d THEN cache[x] \cup files ELSE cache[x]]

\* tar -xzf .. -C dest_root: on success the archive's files are in the
\* directory; on failure the files tar got to before it stopped are.
tar_extract(cache, tmp, d, tar) ==
    IF tar.ok
    THEN Installed(OkPath(d), Extract(cache, d, tar.files), tmp)
    ELSE Installed(ErrText("tar extract failed"), Extract(cache, d, tar.files), tmp)

install(cache, tmp, name_ver, source_str, mkdir_ok, curl_ok, tar) ==
    LET src == parse_source(source_str)
        nv  == rsplit_once(name_ver, "@")
    IN  IF ~IsSome(src) THEN Installed(ErrText("invalid source"), cache, tmp)
        ELSE IF ~IsSome(nv)
        THEN Installed(ErrText("name must be in form name@version"), cache, tmp)
        ELSE
            LET dest_root == Append(cache_root, cache_key(Unwrap(nv)[1], Unwrap(nv)[2]))
                made      == MakeDir(cache, dest_root)
            IN  IF dest_root \in DOMAIN cache THEN Installed(OkPath(dest_root), cache, tmp)
                ELSE IF ~mkdir_ok THEN Installed(ErrText("create cache dir"), cache, tmp)
                ELSE IF Unwrap(src).kind = "gh"
                THEN IF ~curl_ok
                     THEN Installed(ErrText("curl download failed"), made, tmp)
                     ELSE tar_extract(made, tmp \cup {Unwrap(src)}, dest_root, tar)
                ELSE tar_extract(made, tmp, dest_root, tar)

\* prune: the cache root is removed with everything under it.
prune(cache) == <<>>

(***************************************************************************)
(* Installs and prunes over one repository.                                *)
(***************************************************************************)
MaxInstalls == 2

NameVers == {Str("myconv@v1"), Str("@o/c@v1"), Str("myconv")}

SourceStrs == {Str("file:/a.tgz"), Str("gh:o/r@v1"), Str("gh:o@v1"), Str("git:o/r")}

ArchiveFiles == {"index.toml", "nested/file.txt"}

\* What tar does: it extracts the archive, or fails having extracted
\* nothing or a part of it.
TarRuns ==
    {[ok |-> TRUE, files |-> ArchiveFiles],
     [ok |-> FALSE, files |-> {}],
     [ok |-> FALSE, files |-> {"index.toml"}]}

InitConv ==
    /\ cv = [pc |-> "ready", cache |-> <<>>, tmp |-> {}, runs |-> 0, last |-> None]
    /\ mg = MgIdle /\ sy = SyIdle /\ ck = CkIdle /\ fm = FmIdle /\ pa = PaIdle
    /\ rs = RsIdle

\* One call of install; what tar and curl do is not the program's choice.
Install ==
    /\ cv.pc = "ready"
    /\ cv.runs < MaxInstalls
    /\ \E name_ver \in NameVers, source_str \in SourceStrs,
          mkdir_ok \in BOOLEAN, curl_ok \in BOOLEAN, tar \in TarRuns :
          \E r \in {install(cv.cache, cv.tmp, name_ver, source_str, mkdir_ok, curl_ok, tar)} :
              cv' = [cv EXCEPT
                        !.cache = r.cache,
                        !.tmp = r.tmp,
                        !.runs = @ + 1,
                        !.last = Some([name_ver |-> name_ver, source_str |-> source_str,
                                       before |-> cv.cache, result |-> r.result])]
    /\ UNCHANGED <<mg, sy, ck, fm, pa, rs>>

Prune ==
    /\ cv.pc = "ready"
    /\ cv.runs < MaxInstalls
    /\ cv.cache # <<>>
    /\ cv' = [cv EXCEPT !.cache = prune(cv.cache), !.runs = @ + 1, !.last = None]
    /\ UNCHANGED <<mg, sy, ck, fm, pa, rs>>

NextConv == Install \/ Prune

SpecConv == InitConv /\ [][NextConv]_vars

(***************************************************************************)
(* Vocabulary of the claim about install.                                  *)
(***************************************************************************)
LastInstall == Unwrap(cv.last)

\* C30 as the specification states it: install returns Ok with the cache
\* directory only when the directory holds the files extracted from the
\* archive; an install repeated after a failed one for the same name and
\* version does not return Ok over a directory without content.  The code
\* creates the directory before it downloads and extracts, leaves it when
\* that fails, and returns Ok for a directory that exists.
C30_InstallResult_AsClaimed ==
    (IsSome(cv.last) /\ LastInstall.result.ok) =>
        /\ LastInstall.result.path \in DOMAIN cv.cache
        /\ cv.cache[LastInstall.result.path] = ArchiveFiles

====
